---- MODULE Spec2Model ----
(***************************************************************************)
(* A model of the reconnaissance pipeline of recon_framework: the           *)
(* subdomain enumeration stage, the host discovery stage, the notification  *)
(* stage and the driver in main.py, over the four MongoDB collections.      *)
(*                                                                          *)
(* Host names are sequences of labels (<<"a","ex","com">> is a.ex.com); a   *)
(* line of tool output is a sequence of tokens, a label or the whitespace   *)
(* token WS.  Collections whose order no stage reads are bags of documents. *)
(***************************************************************************)
EXTENDS Integers, Sequences, FiniteSets, Bags, TLC

VARIABLES
    config,                     \* the configuration dictionary
    now,                        \* datetime.now(), a logical clock
    subdomains_monitor,         \* collection: sequence of Domain Records
    new_discovered_subdomains,  \* collection: bag of Pending Subdomains
    new_hosts_discovered,       \* collection: bag of Host Targets
    notifications,              \* collection: sequence of Notification Records
    sub_call,                   \* the last call of subdomain_enumeration.run
    host_call,                  \* the last call of host_discovery.run
    notif_call,                 \* the last call of send_notifications
    scan_call,                  \* the last call of vulnerability_scan.run
    args,                       \* main: the parsed command line
    pc,                         \* main: the statement it is at
    main_results,               \* main: the results dictionary
    calls                       \* main: the calls it made and how each ended

vars == <<config, now, subdomains_monitor, new_discovered_subdomains,
          new_hosts_discovered, notifications, sub_call, host_call, notif_call,
          scan_call, args, pc, main_results, calls>>

\* The state of main, which the stages do not touch.
driver == <<args, pc, main_results, calls>>

-----------------------------------------------------------------------------
(* Values of the model. *)

None == "None"
NoDict == <<>>      \* None, where a dictionary is expected
WS == " "

\* dict.get(key, default)
Get(d, key, default) == IF key \in DOMAIN d THEN d[key] ELSE default

\* The truth value of a string or None.
Truthy(v) == v # None /\ v # ""

ExCom == <<"ex", "com">>
AExCom == <<"a", "ex", "com">>
BExCom == <<"b", "ex", "com">>
XAExCom == <<"x", "a", "ex", "com">>
EvilOrg == <<"evil", "org">>

ToolOrder == <<"subfinder", "assetfinder">>
Tools == {"subfinder", "assetfinder"}

Range(s) == {s[i] : i \in 1..Len(s)}

RECURSIVE SeqToBag(_)
SeqToBag(s) == IF s = <<>> THEN EmptyBag ELSE SetToBag({Head(s)}) (+) SeqToBag(Tail(s))

-----------------------------------------------------------------------------
(* Text of a tool's output: str.strip, str.endswith, the list comprehension. *)

RECURSIVE LStrip(_)
LStrip(line) == IF line # <<>> /\ Head(line) = WS THEN LStrip(Tail(line)) ELSE line

RECURSIVE RStrip(_)
RStrip(line) ==
    IF line # <<>> /\ line[Len(line)] = WS
    THEN RStrip(SubSeq(line, 1, Len(line) - 1))
    ELSE line

Strip(line) == RStrip(LStrip(line))

\* name.endswith("." + domain)
EndsWith(name, domain) ==
    /\ Len(name) > Len(domain)
    /\ SubSeq(name, Len(name) - Len(domain) + 1, Len(name)) = domain

\* [s.strip() for s in output.split('\n') if s.strip() and s.strip().endswith("." + domain)]
RECURSIVE FilterLines(_, _)
FilterLines(lines, domain) ==
    IF lines = <<>> THEN <<>>
    ELSE LET name == Strip(Head(lines))
             rest == FilterLines(Tail(lines), domain)
         IN  IF name # <<>> /\ EndsWith(name, domain) THEN <<name>> \o rest ELSE rest

\* One tool's entry of the results dictionary: empty when the tool is not
\* available, when the call raised, and when the output is the empty string.
ToolResult(path, outcome, domain) ==
    IF path # "present" THEN <<>>
    ELSE IF ~outcome.ok THEN <<>>
    ELSE IF outcome.lines = <<>> THEN <<>>
    ELSE FilterLines(outcome.lines, domain)

-----------------------------------------------------------------------------
(* subdomain_enumeration.run *)

\* (the tools tried in the reverse order)
SourceToolLast(name, results) ==
    IF name \in Range(results[ToolOrder[2]]) THEN ToolOrder[2]
    ELSE IF name \in Range(results[ToolOrder[1]]) THEN ToolOrder[1]
    ELSE None

\* The first tool, in the order of the results dictionary, whose list holds the name.
SourceTool(name, results) ==
    IF name \in Range(results[ToolOrder[1]]) THEN ToolOrder[1]
    ELSE IF name \in Range(results[ToolOrder[2]]) THEN ToolOrder[2]
    ELSE None

SubdomainRecord(name, results, t) ==
    [name |-> name, discovery_date |-> t, source_tool |-> SourceTool(name, results),
     last_seen_date |-> t]

PendingRecord(domain, name, t) ==
    [domain |-> domain, subdomain |-> name, discovery_date |-> t]

\* (a lookup that never finds the document)
FindDomainNever(monitor, domain) == 0

\* find_one({"domain": domain}): the index of the first document, 0 for None.
FindDomain(monitor, domain) ==
    IF \E i \in 1..Len(monitor) : monitor[i].domain = domain
    THEN CHOOSE i \in 1..Len(monitor) :
            /\ monitor[i].domain = domain
            /\ \A j \in 1..(i - 1) : monitor[j].domain # domain
    ELSE 0

\* (names are kept only when every tool contributed some)
AllSubdomainsNeedsEach(results) ==
    IF \E t \in Tools : results[t] = <<>> THEN {}
    ELSE UNION {Range(results[t]) : t \in Tools}

\* all_subdomains: the union of the tools' lists.
AllSubdomains(results) == UNION {Range(results[t]) : t \in Tools}

\* (the difference left out)
NewSubdomainsNoDiff(all, record) == all

\* new_subdomains = all_subdomains - existing_subdomains
NewSubdomains(all, record) ==
    all \ {e.name : e \in BagToSet(record.subdomains)}

\* (an update that sets the subdomains of the record it finds to the new entries)
ProcessDomainReplacing(st, domain, outs, paths, t) ==
    LET results == [tool \in Tools |-> ToolResult(paths[tool], outs[tool], domain)]
        all == AllSubdomains(results)
        idx == FindDomain(st.monitor, domain)
        new == IF idx # 0 THEN NewSubdomains(all, st.monitor[idx]) ELSE all
        recs == SetToBag({SubdomainRecord(n, results, t) : n \in new})
    IN  [monitor |-> IF idx # 0
                     THEN IF new = {} THEN st.monitor
                          ELSE [st.monitor EXCEPT ![idx].subdomains = recs]
                     ELSE Append(st.monitor,
                            [domain |-> domain, bug_bounty_platform |-> None,
                             storage_date |-> t, subdomains |-> recs]),
         pending |-> st.pending (+) SetToBag({PendingRecord(domain, n, t) : n \in new}),
         all_new |-> st.all_new (+) SetToBag(new),
         iters   |-> Append(st.iters, [domain |-> domain, found |-> idx # 0,
                                       results |-> results, new |-> new])]

\* The body of the loop over target_domains (lines 60-220) for one domain.
\* st: [monitor, pending, all_new, iters]; outs: tool -> outcome of the call.
ProcessDomain(st, domain, outs, paths, t) ==
    LET results == [tool \in Tools |-> ToolResult(paths[tool], outs[tool], domain)]
        all == AllSubdomains(results)
        idx == FindDomain(st.monitor, domain)
    IN  IF idx # 0
        THEN LET new == NewSubdomains(all, st.monitor[idx])
                 recs == SetToBag({SubdomainRecord(n, results, t) : n \in new})
             IN  [monitor |-> [st.monitor EXCEPT ![idx].subdomains = @ (+) recs],
                  pending |-> st.pending
                              (+) SetToBag({PendingRecord(domain, n, t) : n \in new}),
                  all_new |-> st.all_new (+) SetToBag(new),
                  iters   |-> Append(st.iters,
                                [domain |-> domain, found |-> TRUE,
                                 results |-> results, new |-> new])]
        ELSE [monitor |-> Append(st.monitor,
                            [domain |-> domain, bug_bounty_platform |-> None,
                             storage_date |-> t,
                             subdomains |->
                                SetToBag({SubdomainRecord(n, results, t) : n \in all})]),
              pending |-> st.pending
                          (+) SetToBag({PendingRecord(domain, n, t) : n \in all}),
              all_new |-> st.all_new (+) SetToBag(all),
              iters   |-> Append(st.iters,
                            [domain |-> domain, found |-> FALSE,
                             results |-> results, new |-> all])]

RECURSIVE ProcessDomains(_, _, _, _, _, _)
ProcessDomains(st, targets, i, outs, paths, t) ==
    IF i > Len(targets) THEN st
    ELSE ProcessDomains(ProcessDomain(st, targets[i], outs[i], paths, t),
                        targets, i + 1, outs, paths, t)

\* The whole of run(config, db_client): [monitor, pending, iters, ret] where ret is
\* the returned dictionary, or raised when an exception leaves the function.
SubdomainRun(cfg, monitor, pending, outs, t) ==
    LET paths == cfg.tools
        unchanged(ret) ==
            [monitor |-> monitor, pending |-> pending, iters |-> <<>>, ret |-> ret]
    IN  IF cfg.targets = <<>>
        THEN unchanged([raised |-> FALSE, error |-> "No target domains specified",
                        new_subdomains |-> EmptyBag])
        ELSE IF \E tool \in Tools : paths[tool] = "unset"
        THEN \* os.path.exists(None) raises TypeError
             unchanged([raised |-> TRUE, error |-> None, new_subdomains |-> EmptyBag])
        ELSE IF \A tool \in Tools : paths[tool] # "present"
        THEN unchanged([raised |-> FALSE,
                        error |-> "No subdomain enumeration tools available",
                        new_subdomains |-> EmptyBag])
        ELSE LET st == ProcessDomains(
                          [monitor |-> monitor, pending |-> pending,
                           all_new |-> EmptyBag, iters |-> <<>>],
                          cfg.targets, 1, outs, paths, t)
             IN  [monitor |-> st.monitor, pending |-> st.pending, iters |-> st.iters,
                  ret |-> [raised |-> FALSE, error |-> None,
                           new_subdomains |-> st.all_new]]

-----------------------------------------------------------------------------
(* host_discovery.run *)

BatchLimit == 100

\* The documents of a bag in every order.
RECURSIVE BagOrders(_)
BagOrders(B) ==
    IF BagToSet(B) = {} THEN {<<>>}
    ELSE IF Cardinality(BagToSet(B)) = 1
    THEN {[i \in 1..BagCardinality(B) |-> CHOOSE e \in BagToSet(B) : TRUE]}
    ELSE UNION { {<<e>> \o rest : rest \in BagOrders(B (-) SetToBag({e}))}
                 : e \in BagToSet(B) }

Take(s, k) == IF Len(s) <= k THEN s ELSE SubSeq(s, 1, k)

\* The documents of the collection with the discovery date.
DatedAt(pending, date) ==
    [e \in {x \in BagToSet(pending) : x.discovery_date = date} |-> pending[e]]

Newest(dates) == CHOOSE d \in dates : \A x \in dates : x <= d

Oldest(dates) == CHOOSE d \in dates : \A x \in dates : x >= d

\* The documents sorted by discovery date, descending or ascending, documents
\* of one date in any order.
RECURSIVE SortedBy(_, _, _)
SortedBy(pending, dates, descending) ==
    IF dates = {} THEN {<<>>}
    ELSE LET date == IF descending THEN Newest(dates) ELSE Oldest(dates)
         IN  { head \o rest : head \in BagOrders(DatedAt(pending, date)),
                               rest \in SortedBy(pending, dates \ {date}, descending) }

\* (a read of the oldest documents first)
RecentSubdomainsOldest(pending) ==
    { Take(s, BatchLimit) :
        s \in SortedBy(pending, {e.discovery_date : e \in BagToSet(pending)}, FALSE) }

\* find().sort("discovery_date", -1).limit(100): newest first, documents of one
\* date in any order.
RecentSubdomains(pending) ==
    { Take(s, BatchLimit) :
        s \in SortedBy(pending, {e.discovery_date : e \in BagToSet(pending)}, TRUE) }

\* int(port): the texts int() accepts, ValueError (-1 here) for the others.
ParseInt(text) ==
    CASE text = "80" -> 80
      [] text = "443" -> 443
      [] text = " 443" -> 443
      [] text = "0080" -> 80
      [] OTHER -> -1

\* The loop over the lines of naabu's output (lines 76-86): a line is the list
\* line.strip().split(':'); a blank line is <<>>.
RECURSIVE OpenPorts(_)
OpenPorts(lines) ==
    IF lines = <<>> THEN <<>>
    ELSE LET parts == Head(lines)
             rest == OpenPorts(Tail(lines))
         IN  IF parts # <<>> /\ Len(parts) = 2 /\ ParseInt(parts[2]) # -1
             THEN <<ParseInt(parts[2])>> \o rest
             ELSE rest

HostRecord(subdomain, port, t) ==
    [subdomain |-> subdomain, port |-> port, discovery_date |-> t,
     acunetix_scanned |-> FALSE, nuclei_scanned |-> FALSE]

\* (a lookup that never finds the document)
ExistingHostNever(hosts, subdomain, port) == FALSE

\* (a lookup by the subdomain alone)
ExistingHostAnyPort(hosts, subdomain, port) ==
    \E h \in BagToSet(hosts) : h.subdomain = subdomain

\* find_one({"subdomain": subdomain, "port": port}) is not None
ExistingHost(hosts, subdomain, port) ==
    \E h \in BagToSet(hosts) : h.subdomain = subdomain /\ h.port = port

\* (a loop that writes a fresh record over the one it finds)
RECURSIVE StorePortsUpsert(_, _, _, _)
StorePortsUpsert(st, subdomain, ports, t) ==
    IF ports = <<>> THEN st
    ELSE LET port == Head(ports)
             others == [h \in {x \in BagToSet(st.hosts) :
                                 ~(x.subdomain = subdomain /\ x.port = port)}
                          |-> st.hosts[h]]
         IN  StorePortsUpsert(
                [hosts |-> others (+) SetToBag({HostRecord(subdomain, port, t)}),
                 new_hosts |-> IF ExistingHost(st.hosts, subdomain, port)
                               THEN st.new_hosts
                               ELSE Append(st.new_hosts, <<subdomain, port>>)],
                subdomain, Tail(ports), t)

\* The loop over open_ports (lines 92-113). st: [hosts, new_hosts].
RECURSIVE StorePorts(_, _, _, _)
StorePorts(st, subdomain, ports, t) ==
    IF ports = <<>> THEN st
    ELSE LET port == Head(ports)
         IN  IF ~ExistingHost(st.hosts, subdomain, port)
             THEN StorePorts(
                    [hosts |-> st.hosts (+) SetToBag({HostRecord(subdomain, port, t)}),
                     new_hosts |-> Append(st.new_hosts, <<subdomain, port>>)],
                    subdomain, Tail(ports), t)
             ELSE StorePorts(st, subdomain, Tail(ports), t)

\* The body of the loop over recent_subdomains (lines 59-120) for one document.
ProbeSubdomain(st, record, outcome, t) ==
    IF record.subdomain = <<>> THEN st
    ELSE IF ~outcome.ok THEN st
    ELSE IF outcome.lines = <<>> THEN st
    ELSE StorePorts(st, record.subdomain, OpenPorts(outcome.lines), t)

\* (a loop the first failing probe ends)
RECURSIVE ProbeSubdomainsUntilFailure(_, _, _, _, _)
ProbeSubdomainsUntilFailure(st, batch, i, outs, t) ==
    IF i > Len(batch) \/ ~outs[i].ok THEN st
    ELSE ProbeSubdomainsUntilFailure(ProbeSubdomain(st, batch[i], outs[i], t),
                                     batch, i + 1, outs, t)

\* The loop over recent_subdomains from position i on (lines 59-120); st, a
\* record, is evaluated before the next document is taken.
RECURSIVE ProbeSubdomains(_, _, _, _, _)
ProbeSubdomains(st, batch, i, outs, t) ==
    IF i > Len(batch) \/ DOMAIN st = {} THEN st
    ELSE ProbeSubdomains(ProbeSubdomain(st, batch[i], outs[i], t), batch, i + 1, outs, t)

\* naabu is usable: at its configured path, or else found on PATH.
NaabuAvailable(cfg) == cfg.tools.naabu = "present" \/ cfg.naabu_on_path

\* The positions of the batch for which naabu is invoked (line 68): none when
\* run returns at line 40, else those of the documents that name a subdomain.
Probed(cfg, batch) ==
    IF ~NaabuAvailable(cfg) THEN {}
    ELSE {i \in 1..Len(batch) : batch[i].subdomain # <<>>}

\* (a run that, with nothing pending, records port 80 of the first target domain)
HostRunDefaultTarget(cfg, hosts, batch, outs, t) ==
    IF ~NaabuAvailable(cfg)
    THEN [hosts |-> hosts,
          ret |-> [raised |-> FALSE, error |-> "Naabu tool not available",
                   new_hosts |-> <<>>]]
    ELSE LET st == IF batch = <<>>
                   THEN StorePorts([hosts |-> hosts, new_hosts |-> <<>>],
                                   cfg.targets[1], <<80>>, t)
                   ELSE ProbeSubdomains([hosts |-> hosts, new_hosts |-> <<>>],
                                        batch, 1, outs, t)
         IN  [hosts |-> st.hosts,
              ret |-> [raised |-> FALSE, error |-> None, new_hosts |-> st.new_hosts]]

\* The whole of run(config, db_client): [hosts, ret].
HostRun(cfg, hosts, batch, outs, t) ==
    IF ~NaabuAvailable(cfg)
    THEN [hosts |-> hosts,
          ret |-> [raised |-> FALSE, error |-> "Naabu tool not available",
                   new_hosts |-> <<>>]]
    ELSE IF batch = <<>>
    THEN [hosts |-> hosts, ret |-> [raised |-> FALSE, error |-> None, new_hosts |-> <<>>]]
    ELSE LET st == ProbeSubdomains([hosts |-> hosts, new_hosts |-> <<>>], batch, 1, outs, t)
         IN  [hosts |-> st.hosts,
              ret |-> [raised |-> FALSE, error |-> None, new_hosts |-> st.new_hosts]]

-----------------------------------------------------------------------------
(* notification_handler.send_notifications *)

SeverityGroups == {"critical", "high", "medium", "low", "info"}

\* (a comparison that keeps the case of the text)
LowerKeepCase(text) == text

\* str.lower() on the severity texts of the model.
Lower(text) ==
    CASE text = "CRITICAL" -> "critical"
      [] text = "High" -> "high"
      [] text = "Low" -> "low"
      [] OTHER -> text

\* The key of severity_groups a Finding is appended to (lines 53-57).
GroupOf(vuln) ==
    LET severity == Lower(Get(vuln, "severity", "info"))
    IN  IF severity \in SeverityGroups THEN severity ELSE "info"

\* severity_groups[key] after the loop over vulnerabilities.
SeverityGroup(vulnerabilities, key) ==
    SelectSeq(vulnerabilities, LAMBDA vuln : GroupOf(vuln) = key)

\* A notification dictionary; the message is its text and the count it quotes.
Notification(text, severity, vulns, t) ==
    [message |-> [count |-> Len(vulns), text |-> text],
     severity |-> severity, date |-> t, vulnerabilities |-> vulns]

\* (a tier that is recorded even when it holds no Finding)
TierNotificationAlways(text, severity, vulns, t) ==
    <<Notification(text, severity, vulns, t)>>

\* if vulns: notifications.append(notification)
TierNotification(text, severity, vulns, t) ==
    IF vulns # <<>> THEN <<Notification(text, severity, vulns, t)>> ELSE <<>>

\* The list notifications of lines 60-92.
PrepareNotifications(vulnerabilities, t) ==
    LET urgent_vulns == SeverityGroup(vulnerabilities, "critical")
                        \o SeverityGroup(vulnerabilities, "high")
        low_info_vulns == SeverityGroup(vulnerabilities, "low")
                          \o SeverityGroup(vulnerabilities, "info")
    IN  TierNotification("URGENT: critical/high severity vulnerabilities detected",
                         "urgent", urgent_vulns, t)
        \o TierNotification("medium severity vulnerabilities detected",
                            "medium", SeverityGroup(vulnerabilities, "medium"), t)
        \o TierNotification("low/info severity vulnerabilities detected",
                            "low", low_info_vulns, t)

\* send_email_notification: False without credentials or when the transport raises.
SendEmail(cfg, notification, env) ==
    Truthy(cfg.gmail.username) /\ Truthy(cfg.gmail.password) /\ env.email

\* (a delivery that is counted whether or not it succeeded)
SendDiscordCounted(cfg, notification, env) == TRUE

\* send_discord_notification: False without a webhook or when the transport raises.
SendDiscord(cfg, notification, env) ==
    Truthy(cfg.discord.webhook_url) /\ env.discord[notification.severity]

\* (deliveries in which a failed email ends the attempts for the notification)
DeliverUntilFailure(cfg, notification, env) ==
    IF notification.severity = "urgent" /\ ~SendEmail(cfg, notification, env)
    THEN <<[op |-> "email", severity |-> notification.severity, sent |-> FALSE]>>
    ELSE (IF notification.severity = "urgent"
          THEN <<[op |-> "email", severity |-> notification.severity, sent |-> TRUE]>>
          ELSE <<>>)
         \o <<[op |-> "discord", severity |-> notification.severity,
               sent |-> SendDiscord(cfg, notification, env)]>>

\* (deliveries in which every notification is sent by email too)
DeliverEmailAll(cfg, notification, env) ==
    <<[op |-> "email", severity |-> notification.severity,
       sent |-> SendEmail(cfg, notification, env)],
      [op |-> "discord", severity |-> notification.severity,
       sent |-> SendDiscord(cfg, notification, env)]>>

\* (deliveries in which the webhook comes before the email)
DeliverDiscordFirst(cfg, notification, env) ==
    <<[op |-> "discord", severity |-> notification.severity,
       sent |-> SendDiscord(cfg, notification, env)]>>
    \o (IF notification.severity = "urgent"
        THEN <<[op |-> "email", severity |-> notification.severity,
                sent |-> SendEmail(cfg, notification, env)]>>
        ELSE <<>>)

\* The delivery attempts of lines 101-113 for one notification, in order.
Deliver(cfg, notification, env) ==
    (IF notification.severity = "urgent"
     THEN <<[op |-> "email", severity |-> notification.severity,
             sent |-> SendEmail(cfg, notification, env)]>>
     ELSE <<>>)
    \o <<[op |-> "discord", severity |-> notification.severity,
          sent |-> SendDiscord(cfg, notification, env)]>>

RECURSIVE Deliveries(_, _, _)
Deliveries(cfg, notifs, env) ==
    IF notifs = <<>> THEN <<>>
    ELSE Deliver(cfg, Head(notifs), env) \o Deliveries(cfg, Tail(notifs), env)

\* What insert_one of a notification adds to the events of a run.
Inserted(notification) ==
    [op |-> "insert", severity |-> notification.severity, sent |-> FALSE]

\* (each notification is delivered right after its insert_one)
RECURSIVE RunEventsOneByOne(_, _, _)
RunEventsOneByOne(cfg, notifs, env) ==
    IF notifs = <<>> THEN <<>>
    ELSE <<Inserted(Head(notifs))>> \o Deliver(cfg, Head(notifs), env)
         \o RunEventsOneByOne(cfg, Tail(notifs), env)

\* The store and delivery operations of lines 95-113 in the order made: the
\* loop of insert_one, then the loop of deliveries.
RunEvents(cfg, notifs, env) ==
    [i \in 1..Len(notifs) |-> Inserted(notifs[i])] \o Deliveries(cfg, notifs, env)

\* The whole of send_notifications(config, db_client, scan_results):
\* [notifications, events, ret].  env: is the store reachable, does the mail
\* transport work, does the webhook work for the notification of each tier.
NotifyRun(cfg, collection, scan_results, env, t) ==
    LET result(coll, events, ret) ==
            [notifications |-> coll, events |-> events, ret |-> ret]
    IN  IF scan_results = NoDict
        THEN \* None.get raises AttributeError
             result(collection, <<>>, [raised |-> TRUE, notifications_sent |-> 0])
        ELSE LET vulnerabilities == Get(scan_results, "vulnerabilities", <<>>)
                 notifs == PrepareNotifications(vulnerabilities, t)
                 sends == Deliveries(cfg, notifs, env)
             IN  IF vulnerabilities = <<>>
                 THEN result(collection, <<>>,
                             [raised |-> FALSE, notifications_sent |-> 0])
                 ELSE IF ~env.store_up
                 THEN \* the first insert_one raises
                      result(collection, <<>>,
                             [raised |-> TRUE, notifications_sent |-> 0])
                 ELSE result(collection \o notifs, RunEvents(cfg, notifs, env),
                             [raised |-> FALSE,
                              notifications_sent |->
                                 Len(SelectSeq(sends, LAMBDA e : e.sent))])

-----------------------------------------------------------------------------
(* vulnerability_scan.run, after section 4.3 of the specification *)

Scanners == <<"acunetix", "nuclei">>

ScannedFlag == [acunetix |-> "acunetix_scanned", nuclei |-> "nuclei_scanned"]

\* A scanner is configured: nuclei by its path, acunetix by its servers.
Configured(cfg, scanner) ==
    IF scanner = "nuclei" THEN cfg.tools.nuclei # "unset"
    ELSE cfg.acunetix.servers # <<>>

\* The configured scanners that have not yet run against the target.
Applicable(cfg, target) ==
    SelectSeq(Scanners, LAMBDA scanner :
                Configured(cfg, scanner) /\ ~target[ScannedFlag[scanner]])

\* (a batch of every target of the collection)
ScanBatchesAll(cfg, hosts) == BagOrders(hosts)

\* The batch: the targets some configured scanner has not run against, in any order.
ScanBatches(cfg, hosts) ==
    LET open == {h \in BagToSet(hosts) : Applicable(cfg, h) # <<>>}
    IN  BagOrders([h \in open |-> hosts[h]])

Finding(target, severity, scanner) ==
    [host |-> <<target.subdomain, target.port>>, severity |-> severity,
     source |-> scanner]

\* (the flag is set when the scan succeeded only)
MarkedOnSuccess(target, scanner, out) ==
    IF out.ok THEN [target EXCEPT ![ScannedFlag[scanner]] = TRUE] ELSE target

\* (the flags are written as a whole: this scanner's set, the other's cleared)
MarkedAlone(target, scanner, out) ==
    [target EXCEPT !.acunetix_scanned = (scanner = "acunetix"),
                   !.nuclei_scanned = (scanner = "nuclei")]

\* The target after a scan attempt: the scanner's flag is true, whatever the outcome.
Marked(target, scanner, out) == [target EXCEPT ![ScannedFlag[scanner]] = TRUE]

\* The scanners of one target in turn: a failed scan gives no Finding, and the
\* flag is set either way.  st: [hosts, vulnerabilities].
RECURSIVE ScanTarget(_, _, _, _)
ScanTarget(st, target, scanners, outs) ==
    IF scanners = <<>> THEN st
    ELSE LET scanner == Head(scanners)
             out == outs[scanner]
             found == IF out.ok
                      THEN [i \in 1..Len(out.lines) |->
                              Finding(target, out.lines[i], scanner)]
                      ELSE <<>>
             marked == Marked(target, scanner, out)
         IN  ScanTarget([hosts |-> (st.hosts (-) SetToBag({target}))
                                   (+) SetToBag({marked}),
                         vulnerabilities |-> st.vulnerabilities \o found],
                        marked, Tail(scanners), outs)

RECURSIVE ScanTargets(_, _, _, _, _)
ScanTargets(st, cfg, batch, i, outs) ==
    IF i > Len(batch) THEN st
    ELSE ScanTargets(ScanTarget(st, batch[i], Applicable(cfg, batch[i]), outs[i]),
                     cfg, batch, i + 1, outs)

\* The whole of run(config, db_client): [hosts, ret]; with the store out of
\* reach the read of the batch raises.
ScanRun(cfg, hosts, batch, outs, up) ==
    IF ~up
    THEN [hosts |-> hosts, ret |-> [raised |-> TRUE, vulnerabilities |-> <<>>]]
    ELSE LET st == ScanTargets([hosts |-> hosts, vulnerabilities |-> <<>>],
                               cfg, batch, 1, outs)
         IN  [hosts |-> st.hosts,
              ret |-> [raised |-> FALSE, vulnerabilities |-> st.vulnerabilities]]

-----------------------------------------------------------------------------
(* main *)

EmptyDict == <<>>   \* a configuration file without any of the sections

NoResults ==
    [subdomain_results |-> NoDict, host_results |-> NoDict,
     scan_results |-> NoDict, notification_results |-> NoDict]

\* (a validation that reports the first missing setting only)
MissingSettingsFirst(cfg) ==
    IF ~Truthy(cfg.mongodb.host) THEN <<"mongodb.host">>
    ELSE IF ~Truthy(cfg.mongodb.port) THEN <<"mongodb.port">>
    ELSE IF ~Truthy(cfg.mongodb.database) THEN <<"mongodb.database">>
    ELSE IF cfg.targets = <<>> THEN <<"targets.domains">>
    ELSE IF cfg.tools.subfinder = "unset" /\ cfg.tools.assetfinder = "unset"
    THEN <<"tools.subfinder or tools.assetfinder">>
    ELSE IF cfg.tools.naabu = "unset" THEN <<"tools.naabu">>
    ELSE IF cfg.tools.nuclei = "unset" THEN <<"tools.nuclei">>
    ELSE IF (~Truthy(cfg.gmail.username) \/ ~Truthy(cfg.gmail.password))
            /\ ~Truthy(cfg.discord.webhook_url)
    THEN <<"gmail credentials or discord.webhook_url">>
    ELSE <<>>

\* validate_config: the list missing_settings.
MissingSettings(cfg) ==
    (IF ~Truthy(cfg.mongodb.host) THEN <<"mongodb.host">> ELSE <<>>)
    \o (IF ~Truthy(cfg.mongodb.port) THEN <<"mongodb.port">> ELSE <<>>)
    \o (IF ~Truthy(cfg.mongodb.database) THEN <<"mongodb.database">> ELSE <<>>)
    \o (IF cfg.targets = <<>> THEN <<"targets.domains">> ELSE <<>>)
    \o (IF cfg.tools.subfinder = "unset" /\ cfg.tools.assetfinder = "unset"
        THEN <<"tools.subfinder or tools.assetfinder">> ELSE <<>>)
    \o (IF cfg.tools.naabu = "unset" THEN <<"tools.naabu">> ELSE <<>>)
    \o (IF cfg.tools.nuclei = "unset" THEN <<"tools.nuclei">> ELSE <<>>)
    \o (IF (~Truthy(cfg.gmail.username) \/ ~Truthy(cfg.gmail.password))
           /\ ~Truthy(cfg.discord.webhook_url)
        THEN <<"gmail credentials or discord.webhook_url">> ELSE <<>>)

\* validate_config: the pair it returns (lines 62-67).
ValidateConfig(cfg) ==
    LET missing_settings == MissingSettings(cfg)
    IN  IF missing_settings # <<>>
        THEN [is_valid |-> FALSE, missing_settings |-> missing_settings]
        ELSE [is_valid |-> TRUE, missing_settings |-> <<>>]

\* run_subdomain, run_host, run_scan, run_notify (lines 89-93).
RunAll(a) == a.module = "all"
RunStage(a, stage) == RunAll(a) \/ a.module = stage

\* (a stage that needs its predecessor's new items in every mode)
GateNeedsItems(a, stage, prior, key) ==
    RunStage(a, stage) /\ prior # NoDict /\ prior[key] # <<>>

\* (a stage that also runs whenever its predecessor returned new items)
GateChained(a, stage, prior, key) ==
    IF prior # NoDict THEN RunAll(a) \/ prior[key] # <<>> ELSE RunAll(a)

\* The conditions of lines 115, 126 and 137: prior is the predecessor's entry of
\* results, key the list of new items in it.
Gate(a, stage, prior, key) ==
    RunStage(a, stage) /\ (RunAll(a) \/ (prior # NoDict /\ prior[key] # <<>>))

\* subdomain_enumeration.run when the store may be out of reach: find_one of the
\* first domain raises, before any write.
SubdomainStage(cfg, monitor, pending, outs, t, up) ==
    LET r == SubdomainRun(cfg, monitor, pending, outs, t)
    IN  IF up \/ r.ret.raised \/ r.ret.error # None THEN r
        ELSE [monitor |-> monitor, pending |-> pending, iters |-> <<>>,
              ret |-> [raised |-> TRUE, error |-> None, new_subdomains |-> EmptyBag]]

\* host_discovery.run when the store may be out of reach: find() raises.
HostStage(cfg, hosts, batch, outs, t, up) ==
    LET r == HostRun(cfg, hosts, batch, outs, t)
    IN  IF up \/ r.ret.error # None THEN r
        ELSE [hosts |-> hosts,
              ret |-> [raised |-> TRUE, error |-> None, new_hosts |-> <<>>]]

\* What a stage's try block appends to calls: the call with its argument, then
\* the return or the exception.
StageEvents(stage, arg, ret) ==
    << [stage |-> stage, event |-> "call", value |-> arg],
       [stage |-> stage, event |-> IF ret.raised THEN "raise" ELSE "return",
        value |-> ret] >>

\* results after the try block: the entry is assigned when the stage returned.
Assigned(res, key, ret) == IF ret.raised THEN res ELSE [res EXCEPT ![key] = ret]

\* (an exception of a stage ends the process in every mode)
AfterExitAlways(a, ret, next) == IF ret.raised THEN "exit" ELSE next

\* (an exception of a stage never ends the process)
AfterGoOn(a, ret, next) == next

\* Where main goes after the try block: on, or sys.exit(1) when a single stage fails.
After(a, ret, next) == IF ret.raised /\ ~RunAll(a) THEN "exit" ELSE next

-----------------------------------------------------------------------------
(* Inputs: configurations, and what the external tools return. *)

MaxClock == 1

Padded(name) == <<WS>> \o name \o <<WS>>

\* What a tool call gives: an exception (ok = FALSE), or the lines of its output.
ToolFailure == [ok |-> FALSE, lines |-> <<>>]

ToolOutcomes ==
    { ToolFailure,
      [ok |-> TRUE, lines |-> <<>>],
      [ok |-> TRUE, lines |-> <<AExCom, Padded(XAExCom), <<>>>>],
      [ok |-> TRUE, lines |-> <<XAExCom, BExCom, EvilOrg, XAExCom>>],
      [ok |-> TRUE, lines |-> <<Padded(BExCom), ExCom, <<WS>>>>] }

\* With two target domains, four tool calls are made in a run.
ToolOutcomesPair ==
    { ToolFailure,
      [ok |-> TRUE, lines |-> <<AExCom, Padded(XAExCom), <<>>>>],
      [ok |-> TRUE, lines |-> <<XAExCom, BExCom, EvilOrg, XAExCom>>] }

OutcomesFor(targets) == IF Len(targets) > 1 THEN ToolOutcomesPair ELSE ToolOutcomes

\* naabu's output, each line as line.strip().split(':').
NaabuOutcomes ==
    { ToolFailure,
      [ok |-> TRUE, lines |-> <<>>],
      [ok |-> TRUE, lines |-> << <<"host", "0080">> >>],
      [ok |-> TRUE, lines |-> << <<"host", "80">>, <<"host", "443">> >>],
      [ok |-> TRUE, lines |-> << <<"host", " 443">>, <<>>, <<"host", "http">>,
                                 <<"other", "443">>, <<"host", "80", "tcp">> >>] }

AllTools ==
    [subfinder |-> "present", assetfinder |-> "present", naabu |-> "present",
     nuclei |-> "present"]

\* A configuration dictionary; a tool's path is unset, or names a file that is
\* present or missing; naabu_on_path is what shutil.which('naabu') finds.
Config(targets, tools, on_path) ==
    [mongodb |-> [host |-> "localhost", port |-> "27017", database |-> "recon_framework"],
     targets |-> targets, tools |-> tools, naabu_on_path |-> on_path,
     gmail |-> [username |-> "user", password |-> "secret"],
     discord |-> [webhook_url |-> "url"],
     acunetix |-> [servers |-> <<>>]]

SubConfigs ==
    { Config(<<ExCom>>, [AllTools EXCEPT !.subfinder = p[1], !.assetfinder = p[2]], FALSE) :
        p \in { <<"present", "present">>, <<"present", "missing">>,
                <<"missing", "present">>, <<"missing", "missing">>,
                <<"present", "unset">> } }
    \cup { Config(t, AllTools, FALSE) : t \in {<<>>, <<ExCom, AExCom>>} }

HostConfigs ==
    { Config(<<ExCom, AExCom>>, [AllTools EXCEPT !.naabu = p[1]], p[2]) :
        p \in { <<"present", FALSE>>, <<"missing", TRUE>>,
                <<"missing", FALSE>>, <<"unset", FALSE>> } }

\* Pending Subdomains as Subdomain Discovery leaves them: none, one, two of one
\* run, two of different runs, and one name enqueued under two target domains.
PendingStates ==
    { EmptyBag,
      SetToBag({PendingRecord(ExCom, AExCom, 0)}),
      SetToBag({PendingRecord(ExCom, AExCom, 0), PendingRecord(ExCom, BExCom, 0)}),
      SetToBag({PendingRecord(ExCom, AExCom, 0), PendingRecord(ExCom, BExCom, 1)}),
      SetToBag({PendingRecord(ExCom, XAExCom, 0), PendingRecord(AExCom, XAExCom, 0)}) }

NoCall == [n |-> 0]

\* main is not running: the stage is called on its own.
MainIdle ==
    /\ args = [module |-> "all", domains |-> <<>>]
    /\ pc = "idle"
    /\ main_results = NoResults
    /\ calls = <<>>

MaxFindings == 3

Target80 == <<AExCom, 80>>

\* Findings with the severity texts of the model, and one without the key.
FindingValues ==
    { [host |-> Target80, severity |-> text, source |-> "nuclei"] :
        text \in {"critical", "CRITICAL", "High", "medium", "Low", "info", "weird"} }
    \cup { [host |-> Target80, source |-> "nuclei"] }

FindingLists == UNION { [1..n -> FindingValues] : n \in 0..MaxFindings }

\* What main passes as scan_results: None, or a dictionary with the Findings.
ScanResults == {NoDict} \cup { [vulnerabilities |-> list] : list \in FindingLists }

Tiers == {"urgent", "medium", "low"}

\* The store and the two transports during one call.
DeliveryEnvs ==
    { [store_up |-> FALSE, email |-> TRUE, discord |-> [tier \in Tiers |-> TRUE]] }
    \cup { [store_up |-> TRUE, email |-> mail, discord |-> hook] :
             mail \in BOOLEAN,
             hook \in { [tier \in Tiers |-> TRUE], [tier \in Tiers |-> FALSE],
                        [tier \in Tiers |-> tier # "urgent"],
                        [tier \in Tiers |-> tier = "urgent"] } }

BaseConfig == Config(<<ExCom>>, AllTools, FALSE)

NotifyConfigs ==
    { BaseConfig,
      [BaseConfig EXCEPT !.gmail.password = None],
      [BaseConfig EXCEPT !.discord.webhook_url = ""],
      [BaseConfig EXCEPT !.gmail.username = None, !.discord.webhook_url = None] }

Modules == {"all", "subdomain", "host", "scan", "notify"}

\* The command line: --module, and --domains (<<>> when not given).
MainArgs == [module : Modules, domains : {<<>>, <<ExCom>>}]

\* What load_config returns.
MainConfigs ==
    { BaseConfig, [BaseConfig EXCEPT !.targets = <<>>], EmptyDict,
      [BaseConfig EXCEPT !.gmail.username = None, !.discord.webhook_url = None] }

\* What the tools return during a run of main.
MainToolOutcomes ==
    { ToolFailure, [ok |-> TRUE, lines |-> <<AExCom, Padded(XAExCom), <<>>>>] }

MainNaabuOutcomes == { ToolFailure, [ok |-> TRUE, lines |-> << <<"host", "80">> >>] }

\* What a scanner returns for a target: failure, or the severities it reports.
ScannerOutcomes ==
    { ToolFailure, [ok |-> TRUE, lines |-> <<>>], [ok |-> TRUE, lines |-> <<"critical">>] }

\* The pending collection when main starts.
MainPending == { EmptyBag, SetToBag({PendingRecord(ExCom, BExCom, 0)}) }

MainEnvs ==
    { env \in DeliveryEnvs : env.discord["medium"] = env.discord["low"] }

\* The notifications collection as earlier runs leave it.
PriorNotifications ==
    { <<>>,
      << Notification("medium severity vulnerabilities detected", "medium",
                      <<[host |-> Target80, severity |-> "medium", source |-> "nuclei"]>>,
                      0) >> }

-----------------------------------------------------------------------------
(* Actions. *)

Tick ==
    /\ now < MaxClock
    /\ now' = now + 1
    /\ UNCHANGED <<config, subdomains_monitor, new_discovered_subdomains,
                   new_hosts_discovered, notifications, sub_call, host_call,
                   notif_call, driver,
                    scan_call>>

\* One call of subdomain_enumeration.run; sub_call keeps what the call was given
\* (the collections before it, what each tool call returned) and what it returned.
SubdomainEnumeration ==
    \E outs \in [1..Len(config.targets) -> [Tools -> OutcomesFor(config.targets)]] :
        LET r == SubdomainRun(config, subdomains_monitor, new_discovered_subdomains,
                              outs, now)
        IN  /\ subdomains_monitor' = r.monitor
            /\ new_discovered_subdomains' = r.pending
            /\ sub_call' = [n |-> 1,
                            pre_monitor |-> subdomains_monitor,
                            pre_pending |-> new_discovered_subdomains,
                            outs |-> outs,
                            fault |-> [at |-> 0, op |-> "none", done |-> {}],
                            rerun |-> sub_call.n = 1 /\ sub_call.outs = outs,
                            iters |-> r.iters,
                            ret |-> r.ret]
            /\ UNCHANGED <<config, now, new_hosts_discovered, notifications,
                           host_call, notif_call, driver,
                    scan_call>>

\* One call of host_discovery.run; host_call keeps the batch it read, what naabu
\* returned for each document of the batch, the collection before, the result.
HostDiscovery ==
    \E batch \in RecentSubdomains(new_discovered_subdomains) :
        \E outs \in [1..Len(batch) -> NaabuOutcomes] :
            LET r == HostRun(config, new_hosts_discovered, batch, outs, now)
            IN  /\ new_hosts_discovered' = r.hosts
                /\ host_call' = [n |-> 1,
                                 pre_hosts |-> new_hosts_discovered,
                                 batch |-> batch,
                                 outs |-> outs,
                                 probed |-> Probed(config, batch),
                                 ret |-> r.ret]
                /\ UNCHANGED <<config, now, subdomains_monitor,
                               new_discovered_subdomains, notifications, sub_call,
                               notif_call, driver,
                    scan_call>>

\* One call of send_notifications; notif_call keeps the argument, the collection
\* before, the inserts and delivery attempts in the order made, and the result.
SendNotifications ==
    /\ notif_call.n = 0
    /\ \E scan_results \in ScanResults, env \in DeliveryEnvs :
          LET r == NotifyRun(config, notifications, scan_results, env, now)
          IN  /\ notifications' = r.notifications
              /\ notif_call' = [n |-> 1,
                                pre_notifications |-> notifications,
                                scan_results |-> scan_results,
                                env |-> env,
                                events |-> r.events,
                                ret |-> r.ret]
              /\ UNCHANGED <<config, now, subdomains_monitor,
                             new_discovered_subdomains, new_hosts_discovered,
                             sub_call, host_call, driver,
                    scan_call>>

\* main, lines 62-65 and 68-71: the configuration is loaded, and --domains
\* replaces its target domains.
MainLoad ==
    /\ pc = "load"
    /\ calls' = Append(calls, [stage |-> "load_config", event |-> "call",
                               value |-> NoDict])
    /\ IF config = EmptyDict
       THEN pc' = "exit" /\ config' = config
       ELSE /\ pc' = "validate"
            /\ config' = IF args.domains # <<>>
                         THEN [config EXCEPT !.targets = args.domains]
                         ELSE config
    /\ UNCHANGED <<now, subdomains_monitor, new_discovered_subdomains,
                   new_hosts_discovered, notifications, sub_call, host_call,
                   notif_call, args, main_results,
                    scan_call>>

\* What the call of initialize_db appends to calls: the call, then whether it
\* returned the client (db_handler lines 62, 66, 69).
ConnectEvents(connected) ==
    << [stage |-> "initialize_db", event |-> "call", value |-> NoDict],
       [stage |-> "initialize_db", event |-> "return",
        value |-> [client |-> connected]] >>

\* (a validation whose result main ignores)
MainValidateGoOn ==
    /\ pc = "validate"
    /\ calls' = Append(calls, [stage |-> "validate_config", event |-> "call",
                               value |-> NoDict])
    /\ pc' = "connect"
    /\ UNCHANGED <<config, now, subdomains_monitor, new_discovered_subdomains,
                   new_hosts_discovered, notifications, sub_call, host_call,
                   notif_call, args, main_results, scan_call>>

\* (a connection whose failure main ignores)
MainConnectGoOn ==
    /\ pc = "connect"
    /\ \E connected \in BOOLEAN :
          /\ calls' = calls \o ConnectEvents(connected)
          /\ pc' = "subdomain"
    /\ UNCHANGED <<config, now, subdomains_monitor, new_discovered_subdomains,
                   new_hosts_discovered, notifications, sub_call, host_call,
                   notif_call, args, main_results, scan_call>>

\* main, lines 75-80.
MainValidate ==
    /\ pc = "validate"
    /\ calls' = Append(calls, [stage |-> "validate_config", event |-> "call",
                               value |-> NoDict])
    /\ pc' = IF MissingSettings(config) # <<>> THEN "exit" ELSE "connect"
    /\ UNCHANGED <<config, now, subdomains_monitor, new_discovered_subdomains,
                   new_hosts_discovered, notifications, sub_call, host_call,
                   notif_call, args, main_results,
                    scan_call>>

\* main, lines 83-86: initialize_db returns the client, or None.
MainConnect ==
    /\ pc = "connect"
    /\ \E connected \in BOOLEAN :
          /\ calls' = calls \o ConnectEvents(connected)
          /\ pc' = IF connected THEN "subdomain" ELSE "exit"
    /\ UNCHANGED <<config, now, subdomains_monitor, new_discovered_subdomains,
                   new_hosts_discovered, notifications, sub_call, host_call,
                   notif_call, args, main_results,
                    scan_call>>

\* main, lines 104-112.
MainSubdomain ==
    /\ pc = "subdomain"
    /\ IF RunStage(args, "subdomain")
       THEN \E outs \in [1..Len(config.targets) -> [Tools -> MainToolOutcomes]],
               up \in BOOLEAN :
                LET r == SubdomainStage(config, subdomains_monitor,
                                        new_discovered_subdomains, outs, now, up)
                IN  /\ subdomains_monitor' = r.monitor
                    /\ new_discovered_subdomains' = r.pending
                    /\ main_results' = Assigned(main_results, "subdomain_results", r.ret)
                    /\ calls' = calls \o StageEvents("subdomain", NoDict, r.ret)
                    /\ pc' = After(args, r.ret, "host")
       ELSE /\ pc' = "host"
            /\ UNCHANGED <<subdomains_monitor, new_discovered_subdomains,
                           main_results, calls>>
    /\ UNCHANGED <<config, now, new_hosts_discovered, notifications, sub_call,
                   host_call, notif_call, args,
                    scan_call>>

\* main, lines 115-123.
MainHost ==
    /\ pc = "host"
    /\ IF Gate(args, "host", main_results.subdomain_results, "new_subdomains")
       THEN \E batch \in RecentSubdomains(new_discovered_subdomains), up \in BOOLEAN :
              \E outs \in [1..Len(batch) -> MainNaabuOutcomes] :
                LET r == HostStage(config, new_hosts_discovered, batch, outs, now, up)
                IN  /\ new_hosts_discovered' = r.hosts
                    /\ main_results' = Assigned(main_results, "host_results", r.ret)
                    /\ calls' = calls \o StageEvents("host", NoDict, r.ret)
                    /\ pc' = After(args, r.ret, "scan")
       ELSE /\ pc' = "scan"
            /\ UNCHANGED <<new_hosts_discovered, main_results, calls>>
    /\ UNCHANGED <<config, now, subdomains_monitor, new_discovered_subdomains,
                   notifications, sub_call, host_call, notif_call, args,
                    scan_call>>

\* main, lines 126-134.
MainScan ==
    /\ pc = "scan"
    /\ IF Gate(args, "scan", main_results.host_results, "new_hosts")
       THEN \E batch \in ScanBatches(config, new_hosts_discovered), up \in BOOLEAN :
              \E outs \in [1..Len(batch) -> [Range(Scanners) -> ScannerOutcomes]] :
                LET r == ScanRun(config, new_hosts_discovered, batch, outs, up)
                IN  /\ new_hosts_discovered' = r.hosts
                    /\ main_results' = Assigned(main_results, "scan_results", r.ret)
                    /\ calls' = calls \o StageEvents("scan", NoDict, r.ret)
                    /\ pc' = After(args, r.ret, "notify")
       ELSE /\ pc' = "notify"
            /\ UNCHANGED <<new_hosts_discovered, main_results, calls>>
    /\ UNCHANGED <<config, now, subdomains_monitor, new_discovered_subdomains,
                   notifications, sub_call, host_call, notif_call, args,
                    scan_call>>

\* main, lines 137-145: send_notifications is given results['scan_results'].
MainNotify ==
    /\ pc = "notify"
    /\ IF Gate(args, "notify", main_results.scan_results, "vulnerabilities")
       THEN \E env \in MainEnvs :
                LET r == NotifyRun(config, notifications, main_results.scan_results,
                                   env, now)
                IN  /\ notifications' = r.notifications
                    /\ main_results' = Assigned(main_results, "notification_results",
                                                r.ret)
                    /\ calls' = calls \o StageEvents("notify",
                                                     main_results.scan_results, r.ret)
                    /\ pc' = After(args, r.ret, "summary")
       ELSE /\ pc' = "summary"
            /\ UNCHANGED <<notifications, main_results, calls>>
    /\ UNCHANGED <<config, now, subdomains_monitor, new_discovered_subdomains,
                   new_hosts_discovered, sub_call, host_call, notif_call, args,
                    scan_call>>

\* main, lines 148-157: the summary is logged and main returns.
MainSummary ==
    /\ pc = "summary"
    /\ pc' = "done"
    /\ UNCHANGED <<config, now, subdomains_monitor, new_discovered_subdomains,
                   new_hosts_discovered, notifications, sub_call, host_call,
                   notif_call, args, main_results, calls,
                    scan_call>>

-----------------------------------------------------------------------------
(* Specifications. *)

InitSub ==
    /\ config \in SubConfigs
    /\ now = 0
    /\ subdomains_monitor = <<>>
    /\ new_discovered_subdomains = EmptyBag
    /\ new_hosts_discovered = EmptyBag
    /\ notifications = <<>>
    /\ sub_call = NoCall
    /\ host_call = NoCall
    /\ notif_call = NoCall
    /\ scan_call = NoCall
    /\ MainIdle

NextSub == SubdomainEnumeration

\* Repeated runs of Subdomain Discovery over the Ledger.
SpecSub == InitSub /\ [][NextSub]_vars

InitHost ==
    /\ config \in HostConfigs
    /\ now = 0
    /\ subdomains_monitor = <<>>
    /\ new_discovered_subdomains \in PendingStates
    /\ new_hosts_discovered = EmptyBag
    /\ notifications = <<>>
    /\ sub_call = NoCall
    /\ host_call = NoCall
    /\ notif_call = NoCall
    /\ scan_call = NoCall
    /\ MainIdle

NextHost == HostDiscovery \/ Tick

\* Repeated runs of Host Discovery over a pending collection, as time passes.
SpecHost == InitHost /\ [][NextHost]_vars

InitNotify ==
    /\ config \in NotifyConfigs
    /\ now = 0
    /\ subdomains_monitor = <<>>
    /\ new_discovered_subdomains = EmptyBag
    /\ new_hosts_discovered = EmptyBag
    /\ notifications \in PriorNotifications
    /\ sub_call = NoCall
    /\ host_call = NoCall
    /\ notif_call = NoCall
    /\ scan_call = NoCall
    /\ MainIdle

NextNotify == SendNotifications

\* One call of send_notifications over a notifications collection.
SpecNotify == InitNotify /\ [][NextNotify]_vars

\* --domains is given when the configuration names no target.
Init ==
    /\ config \in MainConfigs
    /\ args \in MainArgs
    /\ args.domains # <<>> <=> (config # EmptyDict /\ config.targets = <<>>
                                 /\ args.module \in {"all", "subdomain"})
                               \/ (config = EmptyDict /\ args.module = "all")
    /\ now = 0
    /\ subdomains_monitor = <<>>
    /\ new_discovered_subdomains \in MainPending
    /\ new_hosts_discovered = EmptyBag
    /\ notifications = <<>>
    /\ sub_call = NoCall
    /\ host_call = NoCall
    /\ notif_call = NoCall
    /\ scan_call = NoCall
    /\ pc = "load"
    /\ main_results = NoResults
    /\ calls = <<>>

Next ==
    \/ MainLoad
    \/ MainValidate
    \/ MainConnect
    \/ MainSubdomain
    \/ MainHost
    \/ MainScan
    \/ MainNotify
    \/ MainSummary

\* One execution of main, over a Ledger that is empty or holds a Pending Subdomain.
Spec == Init /\ [][Next]_vars

-----------------------------------------------------------------------------
(* Counting documents. *)

\* The number of Subdomain Entries of a Domain Record that hold the name.
EntriesNamed(record, name) ==
    LET B == record.subdomains
    IN  BagCardinality([e \in {x \in BagToSet(B) : x.name = name} |-> B[e]])

\* The number of Pending Subdomains that hold the name, under any domain.
PendingNamed(pending, name) ==
    BagCardinality([e \in {x \in BagToSet(pending) : x.subdomain = name} |-> pending[e]])

\* The Domain Records of a domain.
RecordsOf(monitor, domain) == {i \in 1..Len(monitor) : monitor[i].domain = domain}

IterUnion(it) == Range(it.results["subfinder"]) \cup Range(it.results["assetfinder"])

-----------------------------------------------------------------------------
(* Subdomain Discovery: C1, C3, C4, C7. *)

\* C1: a run of Subdomain Discovery that directly follows a run in which every tool
\* call returned the same output returns an empty new-subdomain set, appends
\* nothing to any Domain Record and enqueues no Pending Subdomain.
C1_IdempotentDiscovery ==
    (sub_call.n = 1 /\ sub_call.rerun) =>
        /\ sub_call.ret.new_subdomains = EmptyBag
        /\ subdomains_monitor = sub_call.pre_monitor
        /\ new_discovered_subdomains = sub_call.pre_pending

\* A second run with the same outputs, over two Domain Records that hold entries.
C1_Witness ==
    /\ sub_call.n = 1 /\ sub_call.rerun
    /\ Len(subdomains_monitor) = 2
    /\ \A i \in 1..2 : subdomains_monitor[i].subdomains # EmptyBag
    /\ \E i \in 1..Len(sub_call.iters) : IterUnion(sub_call.iters[i]) # {}

\* C3: no two Subdomain Entries of one Domain Record share a name.
C3_UniqueNames ==
    \A i \in 1..Len(subdomains_monitor) :
        \A e \in BagToSet(subdomains_monitor[i].subdomains) :
            EntriesNamed(subdomains_monitor[i], e.name) = 1

\* A Domain Record that existed before the last run, was given names it held
\* already together with a name it did not, and now holds three entries.
C3_Witness ==
    /\ sub_call.n = 1
    /\ \E i \in 1..Len(sub_call.iters) :
          LET it == sub_call.iters[i]
          IN  /\ it.found
              /\ it.new # {}
              /\ IterUnion(it) \ it.new # {}
              /\ \E k \in RecordsOf(subdomains_monitor, it.domain) :
                    BagCardinality(subdomains_monitor[k].subdomains) = 3

\* C4: the source tool recorded for a new subdomain is subfinder when subfinder's
\* filtered output holds the name, and assetfinder otherwise (then assetfinder's
\* does): the first tool in the order subfinder, assetfinder.
C4_Attribution ==
    sub_call.n = 1 =>
        \A i \in 1..Len(sub_call.iters) :
            LET it == sub_call.iters[i]
            IN  \A n \in it.new :
                    \A k \in RecordsOf(subdomains_monitor, it.domain) :
                        /\ \E e \in BagToSet(subdomains_monitor[k].subdomains) : e.name = n
                        /\ \A e \in BagToSet(subdomains_monitor[k].subdomains) :
                              e.name = n =>
                                e.source_tool =
                                    IF n \in Range(it.results["subfinder"])
                                    THEN "subfinder" ELSE "assetfinder"

\* A run from the empty Ledger in which both tools returned a new name, and
\* assetfinder alone returned another.
C4_Witness ==
    /\ sub_call.n = 1
    /\ sub_call.pre_monitor = <<>>
    /\ \E i \in 1..Len(sub_call.iters) :
          LET it == sub_call.iters[i]
          IN  /\ \E n \in it.new : /\ n \in Range(it.results["subfinder"])
                                   /\ n \in Range(it.results["assetfinder"])
              /\ \E n \in it.new : n \notin Range(it.results["subfinder"])

\* C7: for a domain with no prior Domain Record, the new set is the union of the
\* tools' filtered outputs, and each of its names has exactly one Subdomain Entry,
\* exactly one Pending Subdomain and one occurrence in the returned list.
C7_UnionCountedOnce ==
    sub_call.n = 1 =>
        \A i \in 1..Len(sub_call.iters) :
            LET it == sub_call.iters[i]
            IN  ~it.found =>
                    /\ it.new = IterUnion(it)
                    /\ \A n \in IterUnion(it) :
                          /\ \A k \in RecordsOf(subdomains_monitor, it.domain) :
                                EntriesNamed(subdomains_monitor[k], n) = 1
                          /\ PendingNamed(new_discovered_subdomains, n) = 1
                          /\ CopiesIn(n, sub_call.ret.new_subdomains) = 1

\* The same, with the Pending Subdomains counted under the domain alone and the
\* returned list holding the name once for each target domain it is new under.
C7_UnionCountedOncePerDomain ==
    sub_call.n = 1 =>
        \A i \in 1..Len(sub_call.iters) :
            LET it == sub_call.iters[i]
            IN  ~it.found =>
                    /\ it.new = IterUnion(it)
                    /\ \A n \in IterUnion(it) :
                          /\ \A k \in RecordsOf(subdomains_monitor, it.domain) :
                                EntriesNamed(subdomains_monitor[k], n) = 1
                          /\ CopiesIn(PendingRecord(it.domain, n, now),
                                      new_discovered_subdomains) = 1
                          /\ CopiesIn(n, sub_call.ret.new_subdomains)
                               = Cardinality({j \in 1..Len(sub_call.iters) :
                                                n \in sub_call.iters[j].new})

-----------------------------------------------------------------------------
(* Host Discovery: C2, C8. *)

\* The number of Host Targets with the subdomain and the port.
HostsAt(hosts, subdomain, port) ==
    BagCardinality([h \in {x \in BagToSet(hosts) :
                             x.subdomain = subdomain /\ x.port = port} |-> hosts[h]])

HostPairs(hosts) == {<<h.subdomain, h.port>> : h \in BagToSet(hosts)}

\* The open ports naabu reported for the i-th document of the batch.
ReportedPorts(call, i) ==
    IF call.outs[i].ok THEN Range(OpenPorts(call.outs[i].lines)) ELSE {}

\* The (subdomain, port) pairs reported in the call.
Reported(call) ==
    UNION { {<<call.batch[i].subdomain, p>> : p \in ReportedPorts(call, i)}
            : i \in 1..Len(call.batch) }

\* C2: the host-target collection never holds two records with the same
\* (subdomain, port).
C2_NoDuplicateHostTargets ==
    \A h \in BagToSet(new_hosts_discovered) :
        HostsAt(new_hosts_discovered, h.subdomain, h.port) = 1

\* A run over a batch that holds one subdomain twice, in which both probes
\* reported a port that was recorded before the run, and one of them reported
\* the same port on two lines.
C2_Witness ==
    /\ host_call.n = 1
    /\ \E i, j \in 1..Len(host_call.batch) :
          /\ i < j
          /\ host_call.batch[i].subdomain = host_call.batch[j].subdomain
          /\ \E p \in ReportedPorts(host_call, i) \cap ReportedPorts(host_call, j) :
                /\ <<host_call.batch[i].subdomain, p>> \in HostPairs(host_call.pre_hosts)
                /\ \E k, l \in 1..Len(OpenPorts(host_call.outs[i].lines)) :
                      /\ k < l
                      /\ OpenPorts(host_call.outs[i].lines)[k] = p
                      /\ OpenPorts(host_call.outs[i].lines)[l] = p

\* C8: the Host Targets a run creates are the reported (subdomain, port) pairs that
\* had no Host Target, one record each with both scanned flags false; the records
\* it found are left as they were; new_hosts lists the created pairs, each once.
C8_ExactlyNewPairs ==
    (host_call.n = 1 /\ host_call.ret.error = None) =>
        LET created == new_hosts_discovered (-) host_call.pre_hosts
            expected == Reported(host_call) \ HostPairs(host_call.pre_hosts)
            new_hosts == host_call.ret.new_hosts
        IN  /\ host_call.pre_hosts \sqsubseteq new_hosts_discovered
            /\ HostPairs(created) = expected
            /\ \A h \in BagToSet(created) :
                  /\ created[h] = 1
                  /\ HostsAt(created, h.subdomain, h.port) = 1
                  /\ ~h.acunetix_scanned /\ ~h.nuclei_scanned
            /\ Range(new_hosts) = expected
            /\ Len(new_hosts) = Cardinality(expected)

\* naabu reported ports 80 and 443 for a subdomain whose port 80 was recorded
\* and whose port 443 was not: the run created the target for 443 alone.
C8_Witness ==
    /\ host_call.n = 1
    /\ Len(host_call.batch) = 1
    /\ ReportedPorts(host_call, 1) = {80, 443}
    /\ HostPairs(host_call.pre_hosts) = {<<host_call.batch[1].subdomain, 80>>}
    /\ host_call.ret.new_hosts = << <<host_call.batch[1].subdomain, 443>> >>
    /\ BagCardinality(new_hosts_discovered) = 2

-----------------------------------------------------------------------------
(* Notification: C5, C6. *)

\* The Notification Records the call inserted.
RunRecords ==
    SubSeq(notifications, Len(notif_call.pre_notifications) + 1, Len(notifications))

Occurrences(list, x) == Len(SelectSeq(list, LAMBDA y : y = x))

RECURSIVE OccurrencesInRecords(_, _)
OccurrencesInRecords(records, x) ==
    IF records = <<>> THEN 0
    ELSE Occurrences(Head(records).vulnerabilities, x)
         + OccurrencesInRecords(Tail(records), x)

\* The spellings of a severity word that differ in case only.
Spellings(word) ==
    CASE word = "critical" -> {"critical", "CRITICAL", "Critical"}
      [] word = "high" -> {"high", "HIGH", "High"}
      [] word = "medium" -> {"medium", "MEDIUM", "Medium"}

\* The tier the statement gives a Finding.
TierOf(finding) ==
    IF "severity" \notin DOMAIN finding THEN "low"
    ELSE IF finding.severity \in Spellings("critical") \cup Spellings("high")
    THEN "urgent"
    ELSE IF finding.severity \in Spellings("medium") THEN "medium"
    ELSE "low"

\* C5: every Finding of the input list appears in the Notification Record of
\* exactly one tier, as often as in the input, and that tier is the one its
\* severity gives when compared without regard to case (critical or high:
\* urgent; medium: medium; anything else or no severity: low); the records hold
\* no other Finding.
C5_TierCompleteness ==
    (notif_call.n = 1 /\ ~notif_call.ret.raised) =>
        LET vulnerabilities == notif_call.scan_results.vulnerabilities
            holding(x) == {i \in 1..Len(RunRecords) :
                             Occurrences(RunRecords[i].vulnerabilities, x) > 0}
        IN  /\ \A x \in Range(vulnerabilities) :
                  /\ OccurrencesInRecords(RunRecords, x) = Occurrences(vulnerabilities, x)
                  /\ Cardinality(holding(x)) = 1
                  /\ \A i \in holding(x) : RunRecords[i].severity = TierOf(x)
            /\ \A i \in 1..Len(RunRecords) :
                  Range(RunRecords[i].vulnerabilities) \subseteq Range(vulnerabilities)

\* A call given an upper-case critical Finding, a Finding without severity and
\* one of an unknown severity, which stored an urgent and a low record.
C5_Witness ==
    /\ notif_call.n = 1
    /\ ~notif_call.ret.raised
    /\ notif_call.scan_results.vulnerabilities =
          << [host |-> Target80, source |-> "nuclei"],
             [host |-> Target80, severity |-> "CRITICAL", source |-> "nuclei"],
             [host |-> Target80, severity |-> "weird", source |-> "nuclei"] >>
    /\ [i \in 1..Len(RunRecords) |-> RunRecords[i].severity] = <<"urgent", "low">>

\* C6: the call stores one Notification Record for each tier that holds a
\* Finding and none for an empty tier: at most three, of different tiers, and
\* none for an empty Finding list.
C6_OneRecordPerNonEmptyTier ==
    (notif_call.n = 1 /\ ~notif_call.ret.raised) =>
        LET vulnerabilities == notif_call.scan_results.vulnerabilities
            tiers == {TierOf(x) : x \in Range(vulnerabilities)}
        IN  /\ Len(RunRecords) = Cardinality(tiers)
            /\ {RunRecords[i].severity : i \in 1..Len(RunRecords)} = tiers
            /\ Len(RunRecords) <= 3
            /\ vulnerabilities = <<>> => notifications = notif_call.pre_notifications

\* A call given one critical and one low Finding, over a collection that held a
\* record: it stored an urgent and a low record and no medium one.
C6_Witness ==
    /\ notif_call.n = 1
    /\ ~notif_call.ret.raised
    /\ notif_call.pre_notifications # <<>>
    /\ notif_call.scan_results.vulnerabilities =
          << [host |-> Target80, severity |-> "critical", source |-> "nuclei"],
             [host |-> Target80, severity |-> "Low", source |-> "nuclei"] >>
    /\ Len(RunRecords) = 2
    /\ RunRecords[1].severity = "urgent" /\ RunRecords[2].severity = "low"

-----------------------------------------------------------------------------
(* The driver: C9, C10. *)

StageNames == <<"subdomain", "host", "scan", "notify">>

\* The calls of the four stages main made, each followed by how it ended.
StageCalls == SelectSeq(calls, LAMBDA e : e.stage \in Range(StageNames))

\* The number of stages main has passed.
Passed ==
    CASE pc = "subdomain" -> 0
      [] pc = "host" -> 1
      [] pc = "scan" -> 2
      [] pc = "notify" -> 3
      [] pc \in {"summary", "done"} -> 4

\* C9: when a single stage is selected and main completes, the selected stage
\* was called, whatever its predecessor produced in this run.
C9_SelectedStageRuns ==
    (pc = "done" /\ ~RunAll(args)) =>
        \E i \in 1..Len(calls) :
            calls[i].stage = args.module /\ calls[i].event = "call"

\* C10: in run-all mode the stages are called once each in the order Subdomain
\* Discovery, Host Discovery, Vulnerability Scan, Notification, each call
\* directly followed by its return or its exception before the next call, and
\* Notification is given what the Vulnerability Scan of this run returned
\* (None when it raised).
C10_RunAllOrder ==
    (RunAll(args) /\ pc \in {"subdomain", "host", "scan", "notify", "summary", "done"}) =>
        /\ Len(StageCalls) = 2 * Passed
        /\ \A j \in 1..Passed :
              /\ StageCalls[2 * j - 1].stage = StageNames[j]
              /\ StageCalls[2 * j - 1].event = "call"
              /\ StageCalls[2 * j].stage = StageNames[j]
              /\ StageCalls[2 * j].event \in {"return", "raise"}
        /\ Passed = 4 =>
              StageCalls[7].value = IF StageCalls[6].event = "return"
                                    THEN StageCalls[6].value
                                    ELSE NoDict

\* A completed run-all execution in which the scan returned a Finding and the
\* notification stage delivered it.
C10_Witness ==
    /\ RunAll(args)
    /\ pc = "done"
    /\ StageCalls[6].event = "return"
    /\ StageCalls[6].value.vulnerabilities # <<>>
    /\ StageCalls[8].event = "return"
    /\ StageCalls[8].value.notifications_sent > 0

-----------------------------------------------------------------------------
(* The driver and errors: C11, C12. *)

\* Some stage call of this execution ended with an exception.
StageRaised == \E i \in 1..Len(StageCalls) : StageCalls[i].event = "raise"

\* C11: in run-all mode an exception of a stage does not end the process: main
\* goes on to the next stage, every stage it has passed was called, and it
\* completes normally.
C11_RunAllSwallowsErrors ==
    (RunAll(args) /\ StageRaised) =>
        /\ pc \in {"host", "scan", "notify", "summary", "done"}
        /\ \A j \in 1..Passed :
              \E i \in 1..Len(StageCalls) :
                  StageCalls[i].stage = StageNames[j] /\ StageCalls[i].event = "call"

\* A completed run-all execution in which Subdomain Discovery and the
\* Vulnerability Scan raised, and Notification was still called.
C11_Witness ==
    /\ RunAll(args)
    /\ pc = "done"
    /\ StageCalls[2].event = "raise"
    /\ StageCalls[6].event = "raise"
    /\ StageCalls[7].stage = "notify"

\* C12: in single-stage mode an exception of the selected stage ends the
\* process with status 1: main is at sys.exit(1) and the exception is the last
\* thing in calls, so no later stage was called.
C12_SingleStageAborts ==
    (~RunAll(args) /\ StageRaised) =>
        /\ pc = "exit"
        /\ calls[Len(calls)].event = "raise"
        /\ calls[Len(calls)].stage = args.module
        /\ Len(StageCalls) = 2

\* Subdomain Discovery selected alone, and it raised.
C12_Witness ==
    /\ args.module = "subdomain"
    /\ pc = "exit"
    /\ Len(StageCalls) = 2
    /\ StageCalls[2].event = "raise"

-----------------------------------------------------------------------------
(* Startup of main: C21, C22. *)

\* main has called the named function.
Called(name) == \E i \in 1..Len(calls) : calls[i].stage = name /\ calls[i].event = "call"

\* C21: when load_config returned an empty configuration, or validate_config
\* was called on a configuration with a required setting absent, main is at
\* sys.exit(1) and has neither called initialize_db nor any stage.
C21_InvalidConfigExitsFirst ==
    ((Called("load_config") /\ config = EmptyDict)
       \/ (Called("validate_config") /\ MissingSettings(config) # <<>>)) =>
        /\ pc = "exit"
        /\ ~Called("initialize_db")
        /\ StageCalls = <<>>

\* validate_config found no notification channel, and main exited.
C21_Witness ==
    /\ pc = "exit"
    /\ Called("validate_config")
    /\ config # EmptyDict
    /\ config.targets # <<>>
    /\ MissingSettings(config) = <<"gmail credentials or discord.webhook_url">>

\* initialize_db returned None.
ConnectFailed ==
    \E i \in 1..Len(calls) :
        /\ calls[i].stage = "initialize_db"
        /\ calls[i].event = "return"
        /\ ~calls[i].value.client

\* C22: when initialize_db returned None, main is at sys.exit(1) and no stage
\* was called.
C22_StoreUnavailableExits ==
    ConnectFailed => (pc = "exit" /\ StageCalls = <<>>)

\* A valid configuration in run-all mode, and the store was not reached.
C22_Witness ==
    /\ ConnectFailed
    /\ RunAll(args)
    /\ pc = "exit"
    /\ MissingSettings(config) = <<>>

-----------------------------------------------------------------------------
(* The Vulnerability Scan Stage on its own. *)

BothScanners == [BaseConfig EXCEPT !.acunetix.servers = <<"server">>]

\* nuclei alone, or nuclei and acunetix.
ScanConfigs == {BaseConfig, BothScanners}

\* A Host Target with the given flags.
Target(subdomain, port, acunetix, nuclei) ==
    [HostRecord(subdomain, port, 0) EXCEPT !.acunetix_scanned = acunetix,
                                           !.nuclei_scanned = nuclei]

\* The host-target collection as Host Discovery and earlier scans leave it.
ScanHostStates ==
    { EmptyBag,
      SetToBag({Target(AExCom, 80, FALSE, FALSE)}),
      SetToBag({Target(AExCom, 80, FALSE, FALSE), Target(AExCom, 443, FALSE, FALSE)}),
      SetToBag({Target(AExCom, 80, TRUE, FALSE), Target(BExCom, 80, FALSE, FALSE)}),
      SetToBag({Target(AExCom, 80, FALSE, TRUE), Target(AExCom, 443, TRUE, TRUE)}) }

\* One call of vulnerability_scan.run; scan_call keeps the collection before, the
\* batch, what each scanner returned for each target of the batch, whether the
\* store was in reach, the result.
VulnerabilityScan ==
    \E batch \in ScanBatches(config, new_hosts_discovered), up \in BOOLEAN :
        \E outs \in [1..Len(batch) -> [Range(Scanners) -> ScannerOutcomes]] :
            LET r == ScanRun(config, new_hosts_discovered, batch, outs, up)
            IN  /\ new_hosts_discovered' = r.hosts
                /\ scan_call' = [n |-> 1,
                                 pre_hosts |-> new_hosts_discovered,
                                 batch |-> batch,
                                 outs |-> outs,
                                 up |-> up,
                                 ret |-> r.ret]
                /\ UNCHANGED <<config, now, subdomains_monitor,
                               new_discovered_subdomains, notifications, sub_call,
                               host_call, notif_call, driver>>

InitScan ==
    /\ config \in ScanConfigs
    /\ now = 0
    /\ subdomains_monitor = <<>>
    /\ new_discovered_subdomains = EmptyBag
    /\ new_hosts_discovered \in ScanHostStates
    /\ notifications = <<>>
    /\ sub_call = NoCall
    /\ host_call = NoCall
    /\ notif_call = NoCall
    /\ scan_call = NoCall
    /\ MainIdle

NextScan == VulnerabilityScan

\* Repeated runs of the Vulnerability Scan over a host-target collection.
SpecScan == InitScan /\ [][NextScan]_vars

-----------------------------------------------------------------------------
(* Vulnerability Scan: C13, C14. *)

\* The Host Targets of the collection with this subdomain and port.
TargetsAt(hosts, h) ==
    {x \in BagToSet(hosts) : x.subdomain = h.subdomain /\ x.port = h.port}

\* C13: a scanned flag that was true before a Vulnerability Scan run is true
\* after it, whether the scans of the run succeeded or failed.
C13_FlagsStayTrue ==
    scan_call.n = 1 =>
        \A h \in BagToSet(scan_call.pre_hosts) :
            \A scanner \in Range(Scanners) :
                h[ScannedFlag[scanner]] =>
                    /\ TargetsAt(new_hosts_discovered, h) # {}
                    /\ \A x \in TargetsAt(new_hosts_discovered, h) :
                          x[ScannedFlag[scanner]]

\* A run that scanned, with nuclei failing, a target acunetix had already
\* scanned: both of its flags are true.
C13_Witness ==
    /\ scan_call.n = 1
    /\ ~scan_call.ret.raised
    /\ Len(scan_call.batch) = 2
    /\ \E i \in 1..2 :
          /\ scan_call.batch[i] = Target(AExCom, 80, TRUE, FALSE)
          /\ ~scan_call.outs[i]["nuclei"].ok
    /\ Target(AExCom, 80, TRUE, TRUE) \in BagToSet(new_hosts_discovered)

\* The Findings the statement expects of target i of the batch: those of the
\* applicable scanners that succeeded, in the order of the scanners.
RECURSIVE ExpectedOf(_, _)
ExpectedOf(i, scanners) ==
    IF scanners = <<>> THEN <<>>
    ELSE LET out == scan_call.outs[i][Head(scanners)]
         IN  (IF out.ok
              THEN [k \in 1..Len(out.lines) |->
                      Finding(scan_call.batch[i], out.lines[k], Head(scanners))]
              ELSE <<>>)
             \o ExpectedOf(i, Tail(scanners))

RECURSIVE ExpectedFrom(_)
ExpectedFrom(i) ==
    IF i > Len(scan_call.batch) THEN <<>>
    ELSE ExpectedOf(i, Applicable(config, scan_call.batch[i])) \o ExpectedFrom(i + 1)

\* C14: after a run that read its batch, every target of the batch has the flag
\* of every scanner attempted on it true, failed or not; a failed scan adds no
\* Finding, the run returns, and the Findings of the other scans are all there.
C14_MarkOnAttempt ==
    (scan_call.n = 1 /\ scan_call.up) =>
        /\ ~scan_call.ret.raised
        /\ \A i \in 1..Len(scan_call.batch) :
              \A scanner \in Range(Applicable(config, scan_call.batch[i])) :
                  /\ TargetsAt(new_hosts_discovered, scan_call.batch[i]) # {}
                  /\ \A x \in TargetsAt(new_hosts_discovered, scan_call.batch[i]) :
                        x[ScannedFlag[scanner]]
        /\ scan_call.ret.vulnerabilities = ExpectedFrom(1)

\* A run over two unscanned targets with both scanners configured, in which
\* both scanners failed for the first target and nuclei reported a Finding for
\* the second.
C14_Witness ==
    /\ scan_call.n = 1
    /\ ~scan_call.ret.raised
    /\ config = BothScanners
    /\ Len(scan_call.batch) = 2
    /\ \A scanner \in Range(Scanners) : ~scan_call.outs[1][scanner].ok
    /\ scan_call.outs[2]["nuclei"].ok
    /\ Len(scan_call.ret.vulnerabilities) = 1
    /\ \A x \in BagToSet(new_hosts_discovered) :
          x.acunetix_scanned /\ x.nuclei_scanned

-----------------------------------------------------------------------------
(* Notification deliveries: C15, C16. *)

\* The channels in the state of the call: configured, and the transport works.
EmailWorks ==
    /\ config.gmail.username \notin {None, ""}
    /\ config.gmail.password \notin {None, ""}
    /\ notif_call.env.email

DiscordWorks(tier) ==
    config.discord.webhook_url \notin {None, ""} /\ notif_call.env.discord[tier]

\* The deliveries the statement counts for the record of a tier.
DeliveredFor(tier) ==
    (IF tier = "urgent" /\ EmailWorks THEN 1 ELSE 0)
    + (IF DiscordWorks(tier) THEN 1 ELSE 0)

RECURSIVE DeliveredForAll(_)
DeliveredForAll(records) ==
    IF records = <<>> THEN 0
    ELSE DeliveredFor(Head(records).severity) + DeliveredForAll(Tail(records))

\* C15: the value send_notifications returns is the number of deliveries that
\* succeeded, summed over the records of the run: two for an urgent record
\* delivered by email and Discord, one for any other delivered record, nothing
\* for a channel that failed or is not configured.
C15_CountsDeliveries ==
    (notif_call.n = 1 /\ ~notif_call.ret.raised) =>
        notif_call.ret.notifications_sent = DeliveredForAll(RunRecords)

\* An urgent and a low record, the urgent one delivered on both channels and
\* the low one on Discord: three deliveries for two records.
C15_Witness ==
    /\ notif_call.n = 1
    /\ ~notif_call.ret.raised
    /\ Len(RunRecords) = 2
    /\ RunRecords[1].severity = "urgent" /\ RunRecords[2].severity = "low"
    /\ EmailWorks /\ DiscordWorks("urgent") /\ DiscordWorks("low")
    /\ notif_call.ret.notifications_sent = 3


\* The delivery attempts of the call, in the order made.
Attempts == SelectSeq(notif_call.events, LAMBDA ev : ev.op # "insert")

\* The attempts the statement expects for the records: email then Discord for
\* an urgent record, Discord for any other.
RECURSIVE AttemptsDue(_)
AttemptsDue(records) ==
    IF records = <<>> THEN <<>>
    ELSE (IF Head(records).severity = "urgent"
          THEN <<<<"email", "urgent">>>> ELSE <<>>)
         \o <<<<"discord", Head(records).severity>>>>
         \o AttemptsDue(Tail(records))

\* C16: with the store in reach, a call given a dictionary returns whatever the
\* channels do, and makes every delivery attempt that is due: a channel that
\* fails or is not configured stops neither the other channel for the same
\* record nor the attempts for the records after it.
C16_ChannelIndependence ==
    (notif_call.n = 1 /\ notif_call.env.store_up /\ notif_call.scan_results # NoDict) =>
        /\ ~notif_call.ret.raised
        /\ [i \in 1..Len(Attempts) |-> <<Attempts[i].op, Attempts[i].severity>>]
             = AttemptsDue(RunRecords)

\* The email and the Discord delivery of the urgent record both failed, and the
\* low record was still delivered on Discord.
C16_Witness ==
    /\ notif_call.n = 1
    /\ ~notif_call.ret.raised
    /\ Len(Attempts) = 3
    /\ Attempts[1].op = "email" /\ ~Attempts[1].sent
    /\ Attempts[2].op = "discord" /\ ~Attempts[2].sent
    /\ Attempts[3].severity = "low" /\ Attempts[3].sent

-----------------------------------------------------------------------------
(* Subdomain Discovery and Host Discovery with failing tools: C17, C19, C20. *)

OtherTool(tool) == IF tool = "subfinder" THEN "assetfinder" ELSE "subfinder"

\* The names the Domain Record of the domain held before the call.
NamesBefore(domain) ==
    UNION { {e.name : e \in BagToSet(sub_call.pre_monitor[k].subdomains)} :
              k \in RecordsOf(sub_call.pre_monitor, domain) }

\* The names the Domain Record of the domain holds.
NamesNow(domain) ==
    UNION { {e.name : e \in BagToSet(subdomains_monitor[k].subdomains)} :
              k \in RecordsOf(subdomains_monitor, domain) }

\* C17: when the call of one tool fails for a domain, that tool contributes
\* nothing and the run goes on: every name the other tool returned for the
\* domain (its lines that pass the suffix filter) is in the Domain Record, and
\* those the record did not hold before are enqueued and returned.
C17_OneToolFailing ==
    (sub_call.n = 1 /\ sub_call.ret.error = None /\ ~sub_call.ret.raised) =>
        /\ Len(sub_call.iters) = Len(config.targets)
        /\ \A i \in 1..Len(sub_call.iters) :
             \A tool \in Tools :
               LET it == sub_call.iters[i]
                   other == IF config.tools[OtherTool(tool)] = "present"
                               /\ sub_call.outs[i][OtherTool(tool)].ok
                            THEN Range(FilterLines(sub_call.outs[i][OtherTool(tool)].lines,
                                                   it.domain))
                            ELSE {}
               IN  ~sub_call.outs[i][tool].ok =>
                     /\ it.results[tool] = <<>>
                     /\ it.new = other \ NamesBefore(it.domain)
                     /\ other \subseteq NamesNow(it.domain)
                     /\ \A n \in it.new :
                          /\ PendingRecord(it.domain, n, now)
                               \in BagToSet(new_discovered_subdomains)
                          /\ CopiesIn(n, sub_call.ret.new_subdomains) >= 1

\* A run over a domain that has a Domain Record, in which subfinder failed and
\* assetfinder returned a name the record did not hold.
C17_Witness ==
    /\ sub_call.n = 1
    /\ ~sub_call.ret.raised
    /\ \E i \in 1..Len(sub_call.iters) :
          LET it == sub_call.iters[i]
          IN  /\ it.found
              /\ ~sub_call.outs[i]["subfinder"].ok
              /\ it.results["assetfinder"] # <<>>
              /\ it.new # {}
              /\ NamesBefore(it.domain) # {}

-----------------------------------------------------------------------------
(* Subdomain Discovery when a store operation raises. *)

\* The store operation that raises during a call: none, or, for the domain at
\* position at of the targets, its find_one ("find"), the insert_one or
\* update_one of its Domain Record ("write"), or the insert_one of a Pending
\* Subdomain that follows those of the names in done ("enqueue").
NoFault == [at |-> 0, op |-> "none", done |-> {}]

\* The body of the loop for the domain at which the operation raises: the state
\* the exception leaves, or the whole body when the operation is not reached (no
\* write for a known domain without new names, no further insert_one).
ProcessDomainUntil(st, domain, outs, paths, t, fault) ==
    LET full == ProcessDomain(st, domain, outs, paths, t)
        it == full.iters[Len(full.iters)]
        left(monitor, pending) ==
            [raised |-> TRUE,
             st |-> [monitor |-> monitor, pending |-> pending,
                     all_new |-> st.all_new, iters |-> full.iters]]
    IN  IF fault.op = "find" THEN left(st.monitor, st.pending)
        ELSE IF fault.op = "write" /\ (~it.found \/ it.new # {})
        THEN left(st.monitor, st.pending)
        ELSE IF fault.op = "enqueue" /\ fault.done \subseteq it.new /\ fault.done # it.new
        THEN left(full.monitor,
                  st.pending (+) SetToBag({PendingRecord(domain, n, t) : n \in fault.done}))
        ELSE [raised |-> FALSE, st |-> full]

\* run(config, db_client) when a store operation raises: the exception leaves
\* the loop over target_domains and the function.
SubdomainRunFault(cfg, monitor, pending, outs, t, fault) ==
    LET r == SubdomainRun(cfg, monitor, pending, outs, t)
    IN  IF fault.at = 0 \/ fault.at > Len(cfg.targets)
           \/ r.ret.raised \/ r.ret.error # None
        THEN r
        ELSE LET before == ProcessDomains(
                              [monitor |-> monitor, pending |-> pending,
                               all_new |-> EmptyBag, iters |-> <<>>],
                              SubSeq(cfg.targets, 1, fault.at - 1), 1, outs, cfg.tools, t)
                 part == ProcessDomainUntil(before, cfg.targets[fault.at],
                                            outs[fault.at], cfg.tools, t, fault)
             IN  IF ~part.raised THEN r
                 ELSE [monitor |-> part.st.monitor, pending |-> part.st.pending,
                       iters |-> part.st.iters,
                       ret |-> [raised |-> TRUE, error |-> None,
                                new_subdomains |-> EmptyBag]]

\* The store operations that may raise in a call over two target domains.
Faults ==
    { NoFault }
    \cup { [at |-> i, op |-> op, done |-> {}] :
             i \in 1..2, op \in {"find", "write", "enqueue"} }
    \cup { [at |-> i, op |-> "enqueue", done |-> {XAExCom}] : i \in 1..2 }

StoreConfigs == { Config(<<ExCom, AExCom>>, AllTools, FALSE) }

\* One call of subdomain_enumeration.run during which a store operation may
\* raise: the first run, or the run that follows one an exception ended.
SubdomainEnumerationFault ==
    /\ IF sub_call.n = 0 THEN TRUE ELSE sub_call.ret.raised
    /\ \E outs \in [1..Len(config.targets) -> [Tools -> MainToolOutcomes]],
          fault \in Faults :
           LET r == SubdomainRunFault(config, subdomains_monitor,
                                      new_discovered_subdomains, outs, now, fault)
           IN  /\ subdomains_monitor' = r.monitor
               /\ new_discovered_subdomains' = r.pending
               /\ sub_call' = [n |-> 1,
                               pre_monitor |-> subdomains_monitor,
                               pre_pending |-> new_discovered_subdomains,
                               outs |-> outs,
                               fault |-> fault,
                               iters |-> r.iters,
                               ret |-> r.ret]
               /\ UNCHANGED <<config, now, new_hosts_discovered, notifications,
                              host_call, notif_call, scan_call, driver>>

InitSubStore ==
    /\ config \in StoreConfigs
    /\ now = 0
    /\ subdomains_monitor = <<>>
    /\ new_discovered_subdomains = EmptyBag
    /\ new_hosts_discovered = EmptyBag
    /\ notifications = <<>>
    /\ sub_call = NoCall
    /\ host_call = NoCall
    /\ notif_call = NoCall
    /\ scan_call = NoCall
    /\ MainIdle

NextSubStore == SubdomainEnumerationFault

\* Runs of Subdomain Discovery over a store whose operations may raise, each
\* repeated for as long as the one before it raised.
SpecSubStore == InitSubStore /\ [][NextSubStore]_vars

\* The names the tools returned for the domain at position i in the call.
ReturnedFor(i) ==
    UNION { IF config.tools[tool] = "present" /\ sub_call.outs[i][tool].ok
            THEN Range(FilterLines(sub_call.outs[i][tool].lines, config.targets[i]))
            ELSE {} : tool \in Tools }

\* C18: a run with tools and targets returns, and whatever store operation
\* raised for one domain, every other domain was handled: the names its tools
\* returned are in its Domain Record, and those the record did not hold before
\* are in the returned list.
C18_EveryDomainProcessed ==
    (sub_call.n = 1 /\ sub_call.ret.error = None) =>
        /\ ~sub_call.ret.raised
        /\ \A i \in 1..Len(config.targets) :
              i # sub_call.fault.at =>
                /\ ReturnedFor(i) \subseteq NamesNow(config.targets[i])
                /\ \A n \in ReturnedFor(i) \ NamesBefore(config.targets[i]) :
                      CopiesIn(n, sub_call.ret.new_subdomains) >= 1

-----------------------------------------------------------------------------
(* Host Discovery when a store operation raises. *)

\* The store operation that raises during a call: none (at = 0), or, for the
\* document at position at of the batch, the find_one or insert_one of its
\* open port at position port.
NoHostFault == [at |-> 0, port |-> 0]

\* The body of the loop for the document at which the operation raises: the
\* ports before it are stored, the except clause of line 119 ends the body.
ProbeSubdomainUntil(st, record, outcome, t, k) ==
    IF record.subdomain = <<>> THEN st
    ELSE IF ~outcome.ok THEN st
    ELSE IF outcome.lines = <<>> THEN st
    ELSE StorePorts(st, record.subdomain, Take(OpenPorts(outcome.lines), k - 1), t)

\* run(config, db_client) when a store operation of the loop raises.
HostRunFault(cfg, hosts, batch, outs, t, fault) ==
    IF fault.at = 0 \/ fault.at > Len(batch) \/ ~NaabuAvailable(cfg)
    THEN HostRun(cfg, hosts, batch, outs, t)
    ELSE LET before == ProbeSubdomains([hosts |-> hosts, new_hosts |-> <<>>],
                                       SubSeq(batch, 1, fault.at - 1), 1, outs, t)
             until == ProbeSubdomainUntil(before, batch[fault.at], outs[fault.at], t,
                                          fault.port)
             st == ProbeSubdomains(until, batch, fault.at + 1, outs, t)
         IN  [hosts |-> st.hosts,
              ret |-> [raised |-> FALSE, error |-> None, new_hosts |-> st.new_hosts]]

HostFaults == {NoHostFault} \cup [at : 1..2, port : 1..2]

\* One call of host_discovery.run during which a store operation may raise.
HostDiscoveryFault ==
    \E batch \in RecentSubdomains(new_discovered_subdomains), fault \in HostFaults :
        \E outs \in [1..Len(batch) -> NaabuOutcomes] :
            LET r == HostRunFault(config, new_hosts_discovered, batch, outs, now, fault)
            IN  /\ new_hosts_discovered' = r.hosts
                /\ host_call' = [n |-> 1,
                                 pre_hosts |-> new_hosts_discovered,
                                 batch |-> batch,
                                 outs |-> outs,
                                 fault |-> fault,
                                 ret |-> r.ret]
                /\ UNCHANGED <<config, now, subdomains_monitor,
                               new_discovered_subdomains, notifications, sub_call,
                               notif_call, scan_call, driver>>

InitHostStore ==
    /\ config = BaseConfig
    /\ now = 0
    /\ subdomains_monitor = <<>>
    /\ new_discovered_subdomains \in PendingStates
    /\ new_hosts_discovered = EmptyBag
    /\ notifications = <<>>
    /\ sub_call = NoCall
    /\ host_call = NoCall
    /\ notif_call = NoCall
    /\ scan_call = NoCall
    /\ MainIdle

NextHostStore == HostDiscoveryFault

\* Repeated runs of Host Discovery over a store whose operations may raise.
SpecHostStore == InitHostStore /\ [][NextHostStore]_vars

\* C19: a run that probes returns, and for every document of the batch other
\* than one whose handling an exception ended (naabu failing, or a store
\* operation raising), each port naabu reported is recorded as a Host Target,
\* and listed as new when the pair was not recorded before the run.
C19_FailureSkipsOneSubdomain ==
    (host_call.n = 1 /\ host_call.ret.error = None) =>
        /\ ~host_call.ret.raised
        /\ \A i \in 1..Len(host_call.batch) :
              (i # host_call.fault.at /\ host_call.outs[i].ok) =>
                 \A port \in Range(OpenPorts(host_call.outs[i].lines)) :
                    LET subdomain == host_call.batch[i].subdomain
                    IN  /\ \E h \in BagToSet(new_hosts_discovered) :
                              h.subdomain = subdomain /\ h.port = port
                        /\ (\A h \in BagToSet(host_call.pre_hosts) :
                               ~(h.subdomain = subdomain /\ h.port = port))
                           => \E k \in 1..Len(host_call.ret.new_hosts) :
                                 host_call.ret.new_hosts[k] = <<subdomain, port>>

\* A run over two pending subdomains: for the first, naabu reported ports and
\* the store raised at the first of them; the port of the second is recorded.
C19_Witness ==
    /\ host_call.n = 1
    /\ Len(host_call.batch) = 2
    /\ host_call.batch[1].subdomain # host_call.batch[2].subdomain
    /\ host_call.fault = [at |-> 1, port |-> 1]
    /\ host_call.outs[1].ok /\ OpenPorts(host_call.outs[1].lines) # <<>>
    /\ host_call.outs[2].ok /\ OpenPorts(host_call.outs[2].lines) # <<>>
    /\ host_call.ret.new_hosts # <<>>
    /\ \A k \in 1..Len(host_call.ret.new_hosts) :
          host_call.ret.new_hosts[k][1] = host_call.batch[2].subdomain

-----------------------------------------------------------------------------
(* Subdomain Discovery and Host Discovery over every availability of the tools. *)

\* One target domain. No enumeration tool located (each path missing or unset)
\* with naabu at its path, on PATH only, or nowhere; and one enumeration tool
\* present with naabu nowhere.
ToolConfigs ==
    { Config(<<ExCom>>, [AllTools EXCEPT !.subfinder = p[1], !.assetfinder = p[2],
                                         !.naabu = q[1]], q[2]) :
        p \in { <<"missing", "missing">>, <<"missing", "unset">>,
                <<"unset", "missing">>, <<"unset", "unset">> },
        q \in { <<"present", FALSE>>, <<"missing", TRUE>>,
                <<"missing", FALSE>>, <<"unset", FALSE>> } }
    \cup { Config(<<ExCom>>, [AllTools EXCEPT !.assetfinder = "missing",
                                              !.naabu = q], FALSE) :
             q \in {"missing", "unset"} }

InitTools ==
    /\ config \in ToolConfigs
    /\ now = 0
    /\ subdomains_monitor = <<>>
    /\ new_discovered_subdomains \in PendingStates
    /\ new_hosts_discovered = EmptyBag
    /\ notifications = <<>>
    /\ sub_call = NoCall
    /\ host_call = NoCall
    /\ notif_call = NoCall
    /\ scan_call = NoCall
    /\ MainIdle

\* The first call of subdomain_enumeration.run of a behaviour.
SubdomainEnumerationOnce == sub_call.n = 0 /\ SubdomainEnumeration

\* The first call of host_discovery.run of a behaviour.
HostDiscoveryOnce == host_call.n = 0 /\ HostDiscovery

NextTools == SubdomainEnumerationOnce \/ HostDiscoveryOnce

\* One run of each stage, in either order, under one configuration.
SpecTools == InitTools /\ [][NextTools]_vars

\* No enumeration tool can be located: neither path names an existing file.
NoEnumerationTool == \A tool \in Tools : config.tools[tool] # "present"

\* What the claim requires of a Subdomain Discovery call without tools.
SubUnavailableResult ==
    /\ ~sub_call.ret.raised
    /\ sub_call.ret.error # None
    /\ sub_call.ret.new_subdomains = EmptyBag
    /\ subdomains_monitor = sub_call.pre_monitor
    /\ new_discovered_subdomains = sub_call.pre_pending
    /\ sub_call.iters = <<>>

\* What the claim requires of a Host Discovery call without naabu.
HostUnavailableResult ==
    /\ ~host_call.ret.raised
    /\ host_call.ret.error # None
    /\ host_call.ret.new_hosts = <<>>
    /\ new_hosts_discovered = host_call.pre_hosts
    /\ host_call.probed = {}

ToolUnavailableWithPathsSet ==
    /\ (sub_call.n = 1 /\ \A tool \in Tools : config.tools[tool] = "missing")
          => SubUnavailableResult
    /\ (host_call.n = 1 /\ ~NaabuAvailable(config)) => HostUnavailableResult

\* Both stages were called without their tools, over pending subdomains.
ToolUnavailableCalled ==
    /\ sub_call.n = 1 /\ host_call.n = 1
    /\ \A tool \in Tools : config.tools[tool] = "missing"
    /\ ~NaabuAvailable(config)
    /\ host_call.batch # <<>>

-----------------------------------------------------------------------------
(* validate_config on its own: C23. *)

\* A setting of the configuration: given, or absent (None, or the empty text).
Absent == {None, ""}

\* Configurations with every setting given or absent; an absent section is
\* the section with each of its settings absent.
ValidateConfigs ==
    { [mongodb |-> [host |-> m[1], port |-> m[2], database |-> m[3]],
       targets |-> d,
       tools |-> [subfinder |-> p[1], assetfinder |-> p[2], naabu |-> p[3],
                  nuclei |-> p[4]],
       naabu_on_path |-> FALSE,
       gmail |-> [username |-> g[1], password |-> g[2]],
       discord |-> [webhook_url |-> w],
       acunetix |-> [servers |-> <<>>]] :
        m \in {"localhost", None} \X {"27017", ""} \X {"recon_framework", None},
        d \in {<<>>, <<ExCom>>},
        p \in {"present", "unset"} \X {"missing", "unset"} \X {"present", "unset"}
              \X {"present", "unset"},
        g \in {"user", ""} \X {"secret", None},
        w \in {"url", None} }

\* One call of validate_config(config); calls keeps the call and what it returned.
ValidateConfigCall ==
    /\ calls = <<>>
    /\ calls' = << [stage |-> "validate_config", event |-> "call", value |-> NoDict],
                   [stage |-> "validate_config", event |-> "return",
                    value |-> ValidateConfig(config)] >>
    /\ UNCHANGED <<config, now, subdomains_monitor, new_discovered_subdomains,
                   new_hosts_discovered, notifications, sub_call, host_call,
                   notif_call, scan_call, args, pc, main_results>>

InitValidate ==
    /\ config \in ValidateConfigs
    /\ now = 0
    /\ subdomains_monitor = <<>>
    /\ new_discovered_subdomains = EmptyBag
    /\ new_hosts_discovered = EmptyBag
    /\ notifications = <<>>
    /\ sub_call = NoCall
    /\ host_call = NoCall
    /\ notif_call = NoCall
    /\ scan_call = NoCall
    /\ MainIdle

NextValidate == ValidateConfigCall

SpecValidate == InitValidate /\ [][NextValidate]_vars

\* The required settings that are absent from the configuration, by the name
\* validate_config gives each.
AbsentSettings ==
    {s \in {"mongodb.host"} : config.mongodb.host \in Absent}
    \cup {s \in {"mongodb.port"} : config.mongodb.port \in Absent}
    \cup {s \in {"mongodb.database"} : config.mongodb.database \in Absent}
    \cup {s \in {"targets.domains"} : Len(config.targets) = 0}
    \cup {s \in {"tools.subfinder or tools.assetfinder"} :
            \A tool \in Tools : config.tools[tool] = "unset"}
    \cup {s \in {"tools.naabu"} : config.tools.naabu = "unset"}
    \cup {s \in {"tools.nuclei"} : config.tools.nuclei = "unset"}
    \cup {s \in {"gmail credentials or discord.webhook_url"} :
            /\ config.discord.webhook_url \in Absent
            /\ ~(config.gmail.username \notin Absent /\ config.gmail.password \notin Absent)}

\* C23: validate_config returns (True, []) exactly when no required setting is
\* absent; otherwise it returns False with a non-empty list that names every
\* absent setting and nothing else; the flag is true iff the list is empty.
C23_ValidateConfig ==
    calls # <<>> =>
        LET ret == calls[2].value
        IN  /\ ret.is_valid <=> AbsentSettings = {}
            /\ ret.is_valid <=> ret.missing_settings = <<>>
            /\ Range(ret.missing_settings) = AbsentSettings

\* A configuration without naabu and without a notification channel was
\* validated, and the list names the two.
C23_Witness ==
    /\ calls # <<>>
    /\ ~calls[2].value.is_valid
    /\ Len(calls[2].value.missing_settings) = 2
    /\ config.tools.naabu = "unset"
    /\ config.discord.webhook_url = None /\ config.gmail.password = None

-----------------------------------------------------------------------------
(* Vulnerability Scan: C24. *)

\* Every configured scanner has run against the target.
FullyScanned(h) ==
    \A scanner \in Range(Scanners) :
        Configured(config, scanner) => h[ScannedFlag[scanner]]

\* C24: a Host Target that every configured scanner had run against before a
\* Vulnerability Scan run is not in the batch of the run, so no scanner is
\* invoked on it, and it is in the collection after the run as it was before.
C24_FullyScannedExcluded ==
    scan_call.n = 1 =>
        \A h \in BagToSet(scan_call.pre_hosts) :
            FullyScanned(h) =>
                /\ \A i \in 1..Len(scan_call.batch) : scan_call.batch[i] # h
                /\ h \in BagToSet(new_hosts_discovered)
                /\ CopiesIn(h, new_hosts_discovered) = CopiesIn(h, scan_call.pre_hosts)

\* A run that scanned one target while another was already fully scanned.
C24_Witness ==
    /\ scan_call.n = 1
    /\ scan_call.up
    /\ scan_call.batch # <<>>
    /\ \E h \in BagToSet(scan_call.pre_hosts) :
          FullyScanned(h) /\ h \in BagToSet(new_hosts_discovered)

-----------------------------------------------------------------------------
(* Two executions of Host Discovery over one store: C25. *)

Runs == {1, 2}

\* The open ports naabu reported to an execution for its subdomain.
PortLists ==
    { OpenPorts(outcome.lines) : outcome \in {o \in NaabuOutcomes : o.ok /\ o.lines # <<>>} }

\* An execution in the loop over open_ports (lines 92-113): at find_one or at
\* insert_one for the port at position k, or past the loop.
RunAt(pos, subdomain, ports, k) ==
    [pc |-> IF k > Len(ports) THEN "done" ELSE pos,
     subdomain |-> subdomain, ports |-> ports, k |-> k]

\* Line 94 of execution r: find_one for its current port; when the document
\* exists the execution goes on to the next port.
FindOne(r) ==
    LET run == host_call.runs[r]
    IN  /\ run.pc = "find"
        /\ host_call' =
             [host_call EXCEPT !.runs[r] =
                IF ExistingHost(new_hosts_discovered, run.subdomain, run.ports[run.k])
                THEN RunAt("find", run.subdomain, run.ports, run.k + 1)
                ELSE RunAt("insert", run.subdomain, run.ports, run.k)]
        /\ UNCHANGED <<config, now, subdomains_monitor, new_discovered_subdomains,
                       new_hosts_discovered, notifications, sub_call, notif_call,
                       scan_call, driver>>

\* Line 109 of execution r: insert_one of the Host Target it did not find.
InsertOne(r) ==
    LET run == host_call.runs[r]
    IN  /\ run.pc = "insert"
        /\ new_hosts_discovered' =
             new_hosts_discovered
               (+) SetToBag({HostRecord(run.subdomain, run.ports[run.k], now)})
        /\ host_call' =
             [host_call EXCEPT !.runs[r] =
                RunAt("find", run.subdomain, run.ports, run.k + 1)]
        /\ UNCHANGED <<config, now, subdomains_monitor, new_discovered_subdomains,
                       notifications, sub_call, notif_call, scan_call, driver>>

InitHostRuns ==
    /\ config = BaseConfig
    /\ now \in 0..MaxClock
    /\ subdomains_monitor = <<>>
    /\ new_discovered_subdomains = EmptyBag
    /\ new_hosts_discovered \in {EmptyBag, SetToBag({HostRecord(AExCom, 80, 0)})}
    /\ notifications = <<>>
    /\ sub_call = NoCall
    /\ host_call \in { [n |-> 0, runs |-> runs] :
                        runs \in [Runs -> { RunAt("find", subdomain, ports, 1) :
                                            subdomain \in {AExCom, BExCom},
                                            ports \in PortLists }] }
    /\ notif_call = NoCall
    /\ scan_call = NoCall
    /\ MainIdle

NextHostRuns == \E r \in Runs : FindOne(r) \/ InsertOne(r)

\* Two executions whose store operations interleave in any order.
SpecHostRuns == InitHostRuns /\ [][NextHostRuns]_vars

\* C25: whatever the order in which the two executions' store operations
\* take place, no (subdomain, port) has more than one Host Target.
C25_UniqueUnderInterleaving ==
    \A pair \in HostPairs(new_hosts_discovered) :
        HostsAt(new_hosts_discovered, pair[1], pair[2]) <= 1

-----------------------------------------------------------------------------
(* Host Discovery over a pending collection larger than its window: C26. *)

MaxEnqueued == 2

\* The pending collection with one entry of an earlier run and, of a later
\* run, one entry fewer than the window holds.
WindowPending ==
    SetToBag({PendingRecord(ExCom, BExCom, 0)})
      (+) [e \in {PendingRecord(ExCom, AExCom, 1)} |-> BatchLimit - 1]

\* The Domain Record of the runs that enqueued them.
WindowMonitor ==
    << [domain |-> ExCom, bug_bounty_platform |-> None, storage_date |-> 0,
        subdomains |->
           SetToBag({ [name |-> BExCom, discovery_date |-> 0,
                       source_tool |-> "subfinder", last_seen_date |-> 0],
                      [name |-> AExCom, discovery_date |-> 1,
                       source_tool |-> "subfinder", last_seen_date |-> 1] })] >>

\* Subdomain Discovery enqueues one more Pending Subdomain, dated now (lines
\* 167-171 and 207-211).
Enqueue ==
    /\ BagCardinality(new_discovered_subdomains) < BatchLimit + MaxEnqueued
    /\ new_discovered_subdomains' =
         new_discovered_subdomains (+) SetToBag({PendingRecord(ExCom, AExCom, now)})
    /\ UNCHANGED <<config, now, subdomains_monitor, new_hosts_discovered,
                   notifications, sub_call, host_call, notif_call, scan_call, driver>>

\* (a run that removes from the pending collection the documents it read)
HostDiscoveryConsuming ==
    \E batch \in RecentSubdomains(new_discovered_subdomains), outcome \in NaabuOutcomes :
        LET outs == [i \in 1..Len(batch) |-> outcome]
            r == HostRun(config, new_hosts_discovered, batch, outs, now)
        IN  /\ new_hosts_discovered' = r.hosts
            /\ new_discovered_subdomains' = new_discovered_subdomains (-) SeqToBag(batch)
            /\ host_call' = [n |-> 1,
                             pre_hosts |-> new_hosts_discovered,
                             batch |-> batch,
                             outs |-> outs,
                             probed |-> Probed(config, batch),
                             ret |-> r.ret]
            /\ UNCHANGED <<config, now, subdomains_monitor, notifications, sub_call,
                           notif_call, scan_call, driver>>

\* One call of host_discovery.run in which naabu returns the same for every
\* document of the batch.
HostDiscoveryWindow ==
    \E batch \in RecentSubdomains(new_discovered_subdomains), outcome \in NaabuOutcomes :
        LET outs == [i \in 1..Len(batch) |-> outcome]
            r == HostRun(config, new_hosts_discovered, batch, outs, now)
        IN  /\ new_hosts_discovered' = r.hosts
            /\ host_call' = [n |-> 1,
                             pre_hosts |-> new_hosts_discovered,
                             batch |-> batch,
                             outs |-> outs,
                             probed |-> Probed(config, batch),
                             ret |-> r.ret]
            /\ UNCHANGED <<config, now, subdomains_monitor,
                           new_discovered_subdomains, notifications, sub_call,
                           notif_call, scan_call, driver>>

InitWindow ==
    /\ config = BaseConfig
    /\ now = 1
    /\ subdomains_monitor = WindowMonitor
    /\ new_discovered_subdomains = WindowPending
    /\ new_hosts_discovered = EmptyBag
    /\ notifications = <<>>
    /\ sub_call = NoCall
    /\ host_call = NoCall
    /\ notif_call = NoCall
    /\ scan_call = NoCall
    /\ MainIdle

NextWindow == HostDiscoveryWindow \/ Enqueue

\* Runs of Host Discovery while the pending collection grows past the window.
SpecWindow == InitWindow /\ [][NextWindow]_vars

\* The number of entries of the pending collection newer than the entry.
Newer(e, pending) ==
    BagCardinality([x \in {y \in BagToSet(pending) :
                             y.discovery_date > e.discovery_date} |-> pending[x]])

\* The entry has as many newer entries as the window holds, or more.
Starved(e, pending) == Newer(e, pending) >= 100

\* C26: from a state in which a pending entry has 100 or more newer entries,
\* the entry keeps having them, and a run of Host Discovery does not probe it.
C26_Starvation ==
    [][\A e \in BagToSet(new_discovered_subdomains) :
          Starved(e, new_discovered_subdomains) =>
             /\ e \in BagToSet(new_discovered_subdomains')
             /\ Starved(e, new_discovered_subdomains')
             /\ host_call' # host_call =>
                   \A i \in 1..Len(host_call'.batch) : host_call'.batch[i] # e]_vars

\* A run probed a full window of pending subdomains and recorded their ports
\* while an older entry was left out.
C26_Witness ==
    /\ host_call.n = 1
    /\ Len(host_call.batch) = 100
    /\ host_call.ret.new_hosts # <<>>
    /\ \E e \in BagToSet(new_discovered_subdomains) :
          /\ Starved(e, new_discovered_subdomains)
          /\ \A i \in 1..Len(host_call.batch) : host_call.batch[i] # e
          /\ \A h \in BagToSet(new_hosts_discovered) : h.subdomain # e.subdomain

-----------------------------------------------------------------------------
(* Host Discovery and the collections it only reads: C27. *)

\* The entry is inside the window whatever the order of entries of one date:
\* the entries as new as it or newer, itself included, fit in the window.
InsideWindow(e, pending) ==
    BagCardinality([x \in {y \in BagToSet(pending) :
                             y.discovery_date >= e.discovery_date} |-> pending[x]]) <= 100

\* C27: a run of Host Discovery leaves the pending collection and the domains
\* collection as they were, and, when it reaches the loop, invokes naabu for
\* every pending entry that is inside the window, in this run as in every
\* run before and after it.
C27_PendingOnlyRead ==
    [][host_call' # host_call =>
          /\ new_discovered_subdomains' = new_discovered_subdomains
          /\ subdomains_monitor' = subdomains_monitor
          /\ host_call'.ret.error = None =>
                \A e \in BagToSet(new_discovered_subdomains) :
                    InsideWindow(e, new_discovered_subdomains) =>
                        \E i \in host_call'.probed : host_call'.batch[i] = e]_vars

\* A run that follows a run which recorded hosts: the collections are as
\* before it, and the oldest entry, still inside the window, was probed again.
C27_Witness ==
    /\ host_call.n = 1
    /\ host_call.pre_hosts # EmptyBag
    /\ subdomains_monitor = WindowMonitor
    /\ new_discovered_subdomains = WindowPending
    /\ host_call.probed = 1..100
    /\ host_call.batch[100] = PendingRecord(ExCom, BExCom, 0)
    /\ \E h \in BagToSet(host_call.pre_hosts) : h.subdomain = BExCom

-----------------------------------------------------------------------------
(* Host Discovery over Host Targets the Vulnerability Scan has marked: C28. *)

InitHostScanned ==
    /\ config = BaseConfig
    /\ now = 0
    /\ subdomains_monitor = <<>>
    /\ new_discovered_subdomains \in PendingStates
    /\ new_hosts_discovered \in ScanHostStates
    /\ notifications = <<>>
    /\ sub_call = NoCall
    /\ host_call = NoCall
    /\ notif_call = NoCall
    /\ scan_call = NoCall
    /\ MainIdle

NextHostScanned == HostDiscovery \/ Tick

\* Repeated runs of Host Discovery over scanned and unscanned Host Targets.
SpecHostScanned == InitHostScanned /\ [][NextHostScanned]_vars

\* C28: after a run of Host Discovery every Host Target that was recorded
\* before it is recorded as it was, flags and discovery date included, and as
\* many times; what the run added is one Host Target with both flags false
\* for pairs that had none, and nothing for a pair that had one.
C28_ExistingTargetsUntouched ==
    host_call.n = 1 =>
        /\ \A h \in BagToSet(host_call.pre_hosts) :
              CopiesIn(h, new_hosts_discovered) = CopiesIn(h, host_call.pre_hosts)
        /\ \A h \in BagToSet(new_hosts_discovered) \ BagToSet(host_call.pre_hosts) :
              /\ h.acunetix_scanned = FALSE /\ h.nuclei_scanned = FALSE
              /\ <<h.subdomain, h.port>> \notin HostPairs(host_call.pre_hosts)
        /\ \A pair \in HostPairs(host_call.pre_hosts) :
              HostsAt(new_hosts_discovered, pair[1], pair[2])
                 = HostsAt(host_call.pre_hosts, pair[1], pair[2])

\* A later run in which naabu reported port 80, recorded with the acunetix
\* flag true at an earlier date, and port 443: the target of port 80 is as it
\* was and the target of port 443 was inserted.
C28_Witness ==
    /\ host_call.n = 1
    /\ now = 1
    /\ Target(AExCom, 80, TRUE, FALSE) \in BagToSet(host_call.pre_hosts)
    /\ <<AExCom, 80>> \in Reported(host_call)
    /\ host_call.ret.new_hosts = << <<AExCom, 443>> >>
    /\ Target(AExCom, 80, TRUE, FALSE) \in BagToSet(new_hosts_discovered)
    /\ HostRecord(AExCom, 443, 1) \in BagToSet(new_hosts_discovered)

-----------------------------------------------------------------------------
(* Host Discovery with nothing pending: C29. *)

\* C29: a run of Host Discovery with naabu available and an empty pending
\* collection returns no error and no new host, invokes naabu for nothing and
\* leaves the host-target collection as it was.
C29_EmptyBatch ==
    (host_call.n = 1 /\ NaabuAvailable(config)
       /\ new_discovered_subdomains = EmptyBag) =>
        /\ ~host_call.ret.raised
        /\ host_call.ret.error = None
        /\ host_call.ret.new_hosts = <<>>
        /\ host_call.batch = <<>>
        /\ host_call.probed = {}
        /\ new_hosts_discovered = host_call.pre_hosts

\* A run with nothing pending over a collection that holds Host Targets.
C29_Witness ==
    /\ host_call.n = 1
    /\ NaabuAvailable(config)
    /\ new_discovered_subdomains = EmptyBag
    /\ host_call.pre_hosts # EmptyBag
    /\ host_call.ret.new_hosts = <<>>
    /\ new_hosts_discovered = host_call.pre_hosts

-----------------------------------------------------------------------------
(* Notification: C30. *)

\* The positions of the events of the run that are delivery attempts.
DeliveryAt == {j \in 1..Len(notif_call.events) : notif_call.events[j].op # "insert"}

\* The positions of the events of the run that are inserts.
InsertAt == {i \in 1..Len(notif_call.events) : notif_call.events[i].op = "insert"}

\* C30: in a run of send_notifications every insert into the notifications
\* collection comes before every delivery attempt, the inserts are those of
\* the Notification Records of the run, one each and in their order, and every
\* delivery attempt is for a notification among them; a run that raised
\* attempted no delivery.
C30_PersistBeforeDeliver ==
    notif_call.n = 1 =>
        /\ \A i \in InsertAt : \A j \in DeliveryAt : i < j
        /\ InsertAt = 1..Cardinality(InsertAt)
        /\ notif_call.ret.raised => DeliveryAt = {}
        /\ ~notif_call.ret.raised =>
              /\ Len(RunRecords) = Cardinality(InsertAt)
              /\ \A i \in InsertAt :
                    RunRecords[i].severity = notif_call.events[i].severity
              /\ \A j \in DeliveryAt :
                    \E k \in 1..Len(RunRecords) :
                        /\ k < j
                        /\ notif_call.events[k].op = "insert"
                        /\ RunRecords[k].severity = notif_call.events[j].severity

\* A run with an urgent and a medium notification: two inserts, then the email
\* and the webhook of the first and the webhook of the second.
C30_Witness ==
    /\ notif_call.n = 1
    /\ ~notif_call.ret.raised
    /\ Len(notif_call.events) = 5
    /\ notif_call.events[1].op = "insert" /\ notif_call.events[1].severity = "urgent"
    /\ notif_call.events[2].op = "insert" /\ notif_call.events[2].severity = "medium"
    /\ notif_call.events[3].op = "email"
    /\ notif_call.events[4].op = "discord" /\ notif_call.events[4].severity = "urgent"
    /\ notif_call.events[5].op = "discord" /\ notif_call.events[5].severity = "medium"
    /\ Len(RunRecords) = 2

-----------------------------------------------------------------------------
(* Notification: C31, C38. *)

\* The run has an urgent Notification Record.
UrgentInRun == \E k \in 1..Len(RunRecords) : RunRecords[k].severity = "urgent"

\* C31: in a run with an urgent notification, the first delivery attempt is the
\* email of the urgent notification, the next one is its webhook, made whether
\* the email was sent or not, and each is made once; the urgent notification
\* is the first inserted, and every attempt for the medium and the low
\* notification comes after the two for the urgent one.
C31_UrgentEmailThenDiscord ==
    (notif_call.n = 1 /\ ~notif_call.ret.raised /\ UrgentInRun) =>
        LET ev == notif_call.events
            first == Cardinality(InsertAt) + 1
        IN  /\ ev[1].op = "insert" /\ ev[1].severity = "urgent"
            /\ Len(ev) >= first + 1
            /\ ev[first].op = "email" /\ ev[first].severity = "urgent"
            /\ ev[first + 1].op = "discord" /\ ev[first + 1].severity = "urgent"
            /\ \A j \in DeliveryAt :
                  (j > first + 1) => (ev[j].op = "discord" /\ ev[j].severity # "urgent")

\* The email of the urgent notification failed, its webhook was attempted and
\* worked, and the webhook of the medium notification came after.
C31_Witness ==
    /\ notif_call.n = 1
    /\ ~notif_call.ret.raised
    /\ Len(notif_call.events) = 5
    /\ notif_call.events[3].op = "email" /\ ~notif_call.events[3].sent
    /\ notif_call.events[4].op = "discord" /\ notif_call.events[4].sent
    /\ notif_call.events[4].severity = "urgent"
    /\ notif_call.events[5].severity = "medium"

\* C38: the email is attempted for the urgent notification only, the medium
\* and the low notification have one attempt each, by the webhook; the value
\* send_notifications returns is at most the number of Notification Records
\* of the run plus one, and at most 4.
C38_EmailUrgentOnly ==
    (notif_call.n = 1 /\ ~notif_call.ret.raised) =>
        /\ \A j \in DeliveryAt :
              notif_call.events[j].op = "email" =>
                  notif_call.events[j].severity = "urgent"
        /\ \A k \in 1..Len(RunRecords) :
              RunRecords[k].severity # "urgent" =>
                  \A i, j \in DeliveryAt :
                      (notif_call.events[i].severity = RunRecords[k].severity
                         /\ notif_call.events[j].severity = RunRecords[k].severity)
                      => (i = j /\ notif_call.events[i].op = "discord")
        /\ notif_call.ret.notifications_sent <= Len(RunRecords) + 1
        /\ notif_call.ret.notifications_sent <= 4

\* A run with the three notifications in which every attempt worked: 4 sent.
C38_Witness ==
    /\ notif_call.n = 1
    /\ ~notif_call.ret.raised
    /\ Len(RunRecords) = 3
    /\ notif_call.ret.notifications_sent = 4
    /\ Cardinality({j \in DeliveryAt : notif_call.events[j].op = "email"}) = 1

-----------------------------------------------------------------------------
(* Subdomain Discovery, the Ledger across runs: C32 to C36. *)

\* The iterations of the last run for a domain that had no Domain Record and
\* for which no tool gave a name (each failed or returned no output).
FruitlessAt ==
    {i \in 1..Len(sub_call.iters) :
        /\ RecordsOf(sub_call.pre_monitor, sub_call.iters[i].domain) = {}
        /\ \A j \in 1..Len(sub_call.iters) :
              sub_call.iters[j].domain = sub_call.iters[i].domain =>
                  IterUnion(sub_call.iters[j]) = {}}

\* C32: for a domain with no prior Domain Record for which every tool call
\* failed or returned no output, the run does not raise, returns no new
\* subdomain for it, inserts no Domain Record and enqueues no Pending Subdomain.
C32_NoRecordWithoutNames ==
    sub_call.n = 1 =>
        \A i \in FruitlessAt :
            LET it == sub_call.iters[i]
            IN  /\ ~sub_call.ret.raised
                /\ it.new = {}
                /\ RecordsOf(subdomains_monitor, it.domain) = {}
                /\ \A p \in BagToSet(new_discovered_subdomains) :
                      p.domain = it.domain => CopiesIn(p, sub_call.pre_pending) > 0

\* The same without the Domain Record: the run does not raise, returns no new
\* subdomain for the domain and enqueues nothing; it inserts one Domain Record
\* with no entry.
C32_EmptyRecordInserted ==
    sub_call.n = 1 =>
        \A i \in FruitlessAt :
            LET it == sub_call.iters[i]
            IN  /\ ~sub_call.ret.raised
                /\ it.new = {}
                /\ Cardinality(RecordsOf(subdomains_monitor, it.domain)) = 1
                /\ \A k \in RecordsOf(subdomains_monitor, it.domain) :
                      subdomains_monitor[k].subdomains = EmptyBag
                /\ \A p \in BagToSet(new_discovered_subdomains) :
                      p.domain = it.domain => CopiesIn(p, sub_call.pre_pending) > 0


\* The Ledger under runs of both stages, from the empty Ledger, one target domain.
InitLedger ==
    /\ config = Config(<<ExCom>>, AllTools, FALSE)
    /\ now = 0
    /\ subdomains_monitor = <<>>
    /\ new_discovered_subdomains = EmptyBag
    /\ new_hosts_discovered = EmptyBag
    /\ notifications = <<>>
    /\ sub_call = NoCall
    /\ host_call = NoCall
    /\ notif_call = NoCall
    /\ scan_call = NoCall
    /\ MainIdle

\* The tool outputs of the runs over the Ledger: three names in all.
LedgerToolOutcomes ==
    [subfinder |-> { ToolFailure,
                     [ok |-> TRUE, lines |-> <<AExCom, Padded(XAExCom), <<>>>>],
                     [ok |-> TRUE, lines |-> <<XAExCom, BExCom, EvilOrg, XAExCom>>] },
     assetfinder |-> { ToolFailure,
                       [ok |-> TRUE, lines |-> <<XAExCom, BExCom, EvilOrg, XAExCom>>] }]

LedgerNaabuOutcomes ==
    { ToolFailure,
      [ok |-> TRUE, lines |-> << <<"host", "80">>, <<"host", "443">> >>] }

\* A call of subdomain_enumeration.run with these tool outputs.
SubdomainEnumerationLedger ==
    \E outs \in [1..Len(config.targets) ->
                    {o \in [Tools -> UNION {LedgerToolOutcomes[t] : t \in Tools}] :
                        \A t \in Tools : o[t] \in LedgerToolOutcomes[t]}] :
        LET r == SubdomainRun(config, subdomains_monitor, new_discovered_subdomains,
                              outs, now)
        IN  /\ subdomains_monitor' = r.monitor
            /\ new_discovered_subdomains' = r.pending
            /\ sub_call' = [n |-> 1,
                            pre_monitor |-> subdomains_monitor,
                            pre_pending |-> new_discovered_subdomains,
                            outs |-> outs,
                            fault |-> [at |-> 0, op |-> "none", done |-> {}],
                            rerun |-> sub_call.n = 1 /\ sub_call.outs = outs,
                            iters |-> r.iters,
                            ret |-> r.ret]
            /\ UNCHANGED <<config, now, new_hosts_discovered, notifications,
                           host_call, notif_call, driver, scan_call>>

\* A call of host_discovery.run with these naabu outputs.
HostDiscoveryLedger ==
    \E batch \in RecentSubdomains(new_discovered_subdomains) :
        \E outs \in [1..Len(batch) -> LedgerNaabuOutcomes] :
            LET r == HostRun(config, new_hosts_discovered, batch, outs, now)
            IN  /\ new_hosts_discovered' = r.hosts
                /\ host_call' = [n |-> 1,
                                 pre_hosts |-> new_hosts_discovered,
                                 batch |-> batch,
                                 outs |-> outs,
                                 probed |-> Probed(config, batch),
                                 ret |-> r.ret]
                /\ UNCHANGED <<config, now, subdomains_monitor,
                               new_discovered_subdomains, notifications, sub_call,
                               notif_call, driver, scan_call>>

NextLedger == SubdomainEnumerationLedger \/ HostDiscoveryLedger

\* Runs of Subdomain Discovery and of Host Discovery in any order and number.
SpecLedger == InitLedger /\ [][NextLedger]_vars

\* The names of the Subdomain Entries of a Domain Record.
NamesOf(record) == {e.name : e \in BagToSet(record.subdomains)}

\* C33: in every step of any sequence of runs of the two stages, each Domain
\* Record stays where it is, for the same domain, every Subdomain Entry it held
\* is kept as it was (its names only grow), and every Host Target is kept as it
\* was (the set of (subdomain, port) pairs only grows).
C33_SeenSetsGrow ==
    [][ /\ Len(subdomains_monitor') >= Len(subdomains_monitor)
        /\ \A k \in 1..Len(subdomains_monitor) :
              /\ subdomains_monitor'[k].domain = subdomains_monitor[k].domain
              /\ subdomains_monitor[k].subdomains \sqsubseteq subdomains_monitor'[k].subdomains
              /\ NamesOf(subdomains_monitor[k]) \subseteq NamesOf(subdomains_monitor'[k])
        /\ new_hosts_discovered \sqsubseteq new_hosts_discovered'
        /\ HostPairs(new_hosts_discovered) \subseteq HostPairs(new_hosts_discovered')
      ]_vars

\* A run of Subdomain Discovery appended a name to a Domain Record that held
\* another, and a run of Host Discovery inserted a Host Target next to one
\* that was there.
C33_Witness ==
    /\ sub_call.n = 1 /\ host_call.n = 1
    /\ \E i \in 1..Len(sub_call.iters) :
          /\ sub_call.iters[i].found
          /\ sub_call.iters[i].new # {}
          /\ NamesBefore(sub_call.iters[i].domain) # {}
    /\ host_call.pre_hosts # EmptyBag
    /\ HostPairs(host_call.pre_hosts) # HostPairs(new_hosts_discovered)


\* C34: after any sequence of runs of Subdomain Discovery, no two Pending
\* Subdomains hold the same subdomain name, also when one target domain is a
\* subdomain of another.
C34_PendingNamesUnique ==
    \A p \in BagToSet(new_discovered_subdomains) :
        PendingNamed(new_discovered_subdomains, p.subdomain) = 1

\* The same for the Pending Subdomains of one target domain: no two of them
\* hold the same subdomain name.
C34_PendingUniquePerDomain ==
    \A p \in BagToSet(new_discovered_subdomains) :
        BagCardinality([q \in {x \in BagToSet(new_discovered_subdomains) :
                                 x.domain = p.domain /\ x.subdomain = p.subdomain}
                          |-> new_discovered_subdomains[q]]) = 1


\* C35: once a run of Subdomain Discovery has completed, every name held by a
\* Domain Record has a Pending Subdomain of that domain, also when earlier runs
\* were ended by a store operation that raised after the Domain Record was
\* written and before the name was enqueued.
C35_HistoryAndPendingInStep ==
    (sub_call.n = 1 /\ ~sub_call.ret.raised) =>
        \A k \in 1..Len(subdomains_monitor) :
            \A e \in BagToSet(subdomains_monitor[k].subdomains) :
                \E p \in BagToSet(new_discovered_subdomains) :
                    /\ p.domain = subdomains_monitor[k].domain
                    /\ p.subdomain = e.name


\* The enumeration tools whose path names an existing file.
AvailableTools == {tool \in Tools : config.tools[tool] = "present"}

\* The call ran the tool for every target domain and recorded what it gave: it
\* did not raise and returned no error, every name of the tool's filtered
\* output is in the Domain Record, and those the record did not hold before
\* are the new subdomains, enqueued and returned.
RanAlone(tool) ==
    /\ ~sub_call.ret.raised
    /\ sub_call.ret.error = None
    /\ Len(sub_call.iters) = Len(config.targets)
    /\ \A i \in 1..Len(sub_call.iters) :
          LET it == sub_call.iters[i]
              given == IF sub_call.outs[i][tool].ok
                       THEN Range(FilterLines(sub_call.outs[i][tool].lines, it.domain))
                       ELSE {}
          IN  /\ it.domain = config.targets[i]
              /\ Range(it.results[tool]) = given
              /\ given \subseteq NamesNow(it.domain)
              /\ it.new = given \ NamesBefore(it.domain)
              /\ \A n \in it.new :
                    /\ PendingRecord(it.domain, n, now)
                         \in BagToSet(new_discovered_subdomains)
                    /\ CopiesIn(n, sub_call.ret.new_subdomains) >= 1

C36_OneToolOtherMissing ==
    sub_call.n = 1 =>
        \A tool \in Tools :
            (AvailableTools = {tool} /\ config.tools[OtherTool(tool)] = "missing")
                => RanAlone(tool)

\* A call with assetfinder alone, its path set and subfinder's naming no file,
\* which added a name to a Domain Record that held another.
OneToolOtherMissingCalled ==
    /\ sub_call.n = 1
    /\ config.tools["subfinder"] = "missing"
    /\ config.tools["assetfinder"] = "present"
    /\ \E i \in 1..Len(sub_call.iters) :
          /\ sub_call.iters[i].found
          /\ sub_call.iters[i].new # {}
          /\ NamesBefore(sub_call.iters[i].domain) # {}

-----------------------------------------------------------------------------
(* The driver in single-stage mode: C37. *)

\* C37: when a single stage is selected, main calls no other stage, whatever
\* the selected stage returns: every stage call made is a call of the selected
\* stage, and there is at most one.
C37_SingleStageOnly ==
    ~RunAll(args) =>
        /\ \A i \in 1..Len(StageCalls) : StageCalls[i].stage = args.module
        /\ Len(StageCalls) <= 2

\* main completed with --module subdomain: Subdomain Discovery returned new
\* subdomains, and Host Discovery was not called.
C37_Witness ==
    /\ args.module = "subdomain"
    /\ pc = "done"
    /\ Len(StageCalls) = 2
    /\ StageCalls[2].event = "return"
    /\ StageCalls[2].value.new_subdomains # EmptyBag
    /\ new_discovered_subdomains # EmptyBag

====
